---- MODULE Spec2Model ----
(***************************************************************************)
(* Model of the dexterdb seeding engine (the Mongoose Seeder): the         *)
(* dependency orderer sortModelsByDependencies, seed and seedAll, the      *)
(* reference resolver and the field value synthesizer.                     *)
(***************************************************************************)
EXTENDS Integers, Sequences, FiniteSets, TLC

VARIABLES
  models,          \* Seeder.models: the Registry, a sequence of SchemaModel
  mongooseModels,  \* Seeder.mongooseModels: names that have a storage binding
  config,          \* Seeder.config: the merged config file
  generatedData,   \* Seeder.generatedData: Map name -> records
  store,           \* the MongoDB collections: name -> documents in natural order
  nextId,          \* the next ObjectId the store assigns (ObjectIds increase)
  pc,              \* position of the caller: idle, sort (in the Orderer), loop (seedAll's for)
  sorted,          \* sortModelsByDependencies: sorted
  visited,         \* sortModelsByDependencies: visited
  visiting,        \* sortModelsByDependencies: visiting
  stack,           \* call stack of visit(): frames [m: model index, k: next field index]
  idx,             \* index of the outer for loop of sortModelsByDependencies
  results,         \* seedAll: results
  runLog,          \* observation: the seed calls of the current seedAll run
  last,            \* observation of the last seed call
  calls,           \* number of calls made so far
  inflight,        \* storage calls issued together and not yet settled (Promise.all)
  parser,          \* Seeder.parser: isConnected, models.size, and its environment
  connection       \* the mongoose connection the parser shares with the application

vars == <<models, mongooseModels, config, generatedData, store, nextId, pc,
          sorted, visited, visiting, stack, idx, results, runLog, last, calls,
          inflight, parser, connection>>

sortVars == <<sorted, visited, visiting, stack, idx>>
seederVars == <<models, mongooseModels, config, parser, connection>>
dataVars == <<generatedData, store, nextId, calls, inflight>>

\* ---------------------------------------------------------------- bounds
\* most foreign-key fields one model of a SortSpec registry declares
MaxFksPerModel == 2
\* most foreign-key fields a SortSpec registry declares in all
MaxFks == 4
\* frames the JavaScript call stack holds before RangeError is thrown
MaxStack == 6
\* most seed calls (direct, or made by seedAll) in one behaviour
MaxCalls == 2
\* largest count a caller passes to seed
MaxCount == 2
\* the count the config file gives User
UserCount == 2
\* the count the config file gives Post
PostCount == 2
\* documents a collection holds before the Seeder is constructed
MaxPre == 1
\* most model files under schemasPath, and most models the application has
\* registered with mongoose beforehand
MaxSchemas == 2
\* most calls on the parser in one behaviour
MaxParserCalls == 4

\* ---------------------------------------------------------------- values
undefined == "undefined"
null == 0

RangeOf(s) == {s[n] : n \in 1..Len(s)}

\* SchemaField, as MongooseParser.parseMongooseModel builds it
Field(name, type, pk, fk, rel, dflt) ==
  [name |-> name, type |-> type, isPrimaryKey |-> pk, isForeignKey |-> fk,
   relationModel |-> rel, defaultValue |-> dflt]

\* the "id" field parseMongooseModel pushes for the _id path
IdField == Field("id", "objectid", TRUE, FALSE, undefined, undefined)

\* an ObjectId path with a ref option
RefField(name, target) == Field(name, "objectid", FALSE, TRUE, target, undefined)

\* an array path whose caster is an ObjectId with a ref option: a relation
\* (manyToMany) that is not marked as a foreign key
ArrayRefField(name, target) == Field(name, "objectid", FALSE, FALSE, target, undefined)

\* a String path with enum values; the other paths carry no enumValues
EnumField(name, values) ==
  [name |-> name, type |-> "enum", isPrimaryKey |-> FALSE, isForeignKey |-> FALSE,
   relationModel |-> undefined, defaultValue |-> undefined, enumValues |-> values]

SchemaModel(name, fields) == [name |-> name, fields |-> fields]

ModelNames(ms) == {ms[n].name : n \in 1..Len(ms)}

\* a lookup that finds no model
findModelNone(ms, name) == 0

\* this.models.find(m => m.name === name): the index of the first match, 0 if none
findModel(ms, name) ==
  IF \E n \in 1..Len(ms) : ms[n].name = name
  THEN CHOOSE n \in 1..Len(ms) :
         /\ ms[n].name = name
         /\ \A q \in 1..(n - 1) : ms[q].name # name
  ELSE 0

\* ------------------------------------------- sortModelsByDependencies
\* the dependency test reading the wrong flag of the field
isDependencyWrongFlag(field) ==
  field.isPrimaryKey /\ field.relationModel # undefined

\* field.isForeignKey && field.relationModel
isDependency(field) ==
  field.isForeignKey /\ field.relationModel # undefined

\* visit() that only refuses models already done
visitReturnsEarlyNoVisiting(name, vng, vtd) == name \in vtd

\* visit() that only refuses models in progress
visitReturnsEarlyNoVisited(name, vng, vtd) == name \in vng

\* the two early returns of visit()
visitReturnsEarly(name, vng, vtd) == name \in vng \/ name \in vtd

\* a call visit(models[m]): returns at once, or marks the model and runs its body
CallVisit(m, stk) ==
  IF visitReturnsEarly(models[m].name, visiting, visited)
  THEN /\ stack' = stk
       /\ visiting' = visiting
       /\ pc' = pc
  ELSE IF Len(stk) >= MaxStack
  THEN /\ pc' = "RangeError"
       /\ stack' = stk
       /\ visiting' = visiting
  ELSE /\ stack' = Append(stk, [m |-> m, k |-> 1])
       /\ visiting' = visiting \cup {models[m].name}
       /\ pc' = pc

\* no call has been observed
NoCall == [op |-> "none"]

\* the caller is between two calls on the Seeder
Idle == pc \in {"idle", "returned"}

\* seedAll starts: results = [], and the Orderer is entered with its fresh locals
SeedAllStart ==
  /\ Idle
  /\ calls = 0 \/ calls + Len(models) <= MaxCalls
  /\ pc' = "sort"
  /\ results' = <<>>
  /\ sorted' = <<>>
  /\ visited' = {}
  /\ visiting' = {}
  /\ stack' = <<>>
  /\ idx' = 1
  /\ runLog' = <<>>
  /\ last' = NoCall
  /\ UNCHANGED <<seederVars, dataVars>>

\* one iteration of: for (const model of this.models) if (!visited.has) visit(model)
SortOuterLoop ==
  /\ pc = "sort"
  /\ stack = <<>>
  /\ idx <= Len(models)
  /\ idx' = idx + 1
  /\ IF models[idx].name \notin visited
     THEN CallVisit(idx, stack)
     ELSE UNCHANGED <<stack, visiting, pc>>
  /\ UNCHANGED <<sorted, visited, results, runLog, last, seederVars, dataVars>>

\* one iteration of the loop over model.fields inside visit()
VisitField ==
  /\ pc = "sort"
  /\ stack # <<>>
  /\ LET top == stack[Len(stack)]
         fields == models[top.m].fields
         stepped == [stack EXCEPT ![Len(stack)].k = top.k + 1]
     IN /\ top.k <= Len(fields)
        /\ IF isDependency(fields[top.k])
              /\ findModel(models, fields[top.k].relationModel) # 0
           THEN CallVisit(findModel(models, fields[top.k].relationModel), stepped)
           ELSE /\ stack' = stepped
                /\ UNCHANGED <<visiting, pc>>
  /\ UNCHANGED <<sorted, visited, idx, results, runLog, last, seederVars, dataVars>>

\* the end of a visit() that puts the model at the front of sorted
VisitReturnUnshifts ==
  /\ pc = "sort"
  /\ stack # <<>>
  /\ LET top == stack[Len(stack)]
     IN /\ top.k > Len(models[top.m].fields)
        /\ visiting' = visiting \ {models[top.m].name}
        /\ visited' = visited \cup {models[top.m].name}
        /\ sorted' = <<models[top.m]>> \o sorted
        /\ stack' = SubSeq(stack, 1, Len(stack) - 1)
  /\ UNCHANGED <<pc, idx, results, runLog, last, seederVars, dataVars>>

\* the end of visit(): visiting.delete, visited.add, sorted.push
VisitReturn ==
  /\ pc = "sort"
  /\ stack # <<>>
  /\ LET top == stack[Len(stack)]
     IN /\ top.k > Len(models[top.m].fields)
        /\ visiting' = visiting \ {models[top.m].name}
        /\ visited' = visited \cup {models[top.m].name}
        /\ sorted' = Append(sorted, models[top.m])
        /\ stack' = SubSeq(stack, 1, Len(stack) - 1)
  /\ UNCHANGED <<pc, idx, results, runLog, last, seederVars, dataVars>>

\* return sorted: seedAll goes on to its for loop over sortedModels
SortReturn ==
  /\ pc = "sort"
  /\ stack = <<>>
  /\ idx > Len(models)
  /\ pc' = "loop"
  /\ UNCHANGED <<sortVars, results, runLog, last, seederVars, dataVars>>

NextSort == SeedAllStart \/ SortOuterLoop \/ VisitField \/ VisitReturn \/ SortReturn

\* ------------------------------------------------------- configuration
Has(f, k) == k \in DOMAIN f

\* the object spread {...a, ...b}: b's keys replace a's, key by key
Spread(a, b) ==
  [k \in DOMAIN a \cup DOMAIN b |-> IF k \in DOMAIN b THEN b[k] ELSE a[k]]

\* ConfigLoader.mergeWithDefaults: global flags default to false
mergeWithDefaults(userConfig) ==
  [global |-> Spread([reset |-> FALSE, incremental |-> FALSE, randomize |-> FALSE],
                     userConfig.global),
   models |-> userConfig.models]

\* ConfigLoader.getModelConfig: config.models?.[modelName] || {}
getModelConfig(cfg, modelName) ==
  IF Has(cfg.models, modelName) THEN cfg.models[modelName] ELSE <<>>

\* the merge that lets the config-file entry override the call's options
mergeModelConfigFileWins(cfg, modelName, options) ==
  Spread(options, getModelConfig(cfg, modelName))

\* a merge that also merges the fields maps of the two layers key by key
mergeModelConfigDeep(cfg, modelName, options) ==
  LET file == getModelConfig(cfg, modelName)
      top == Spread(file, options)
  IN IF Has(file, "fields") /\ Has(options, "fields")
     THEN [top EXCEPT !.fields = Spread(file.fields, options.fields)]
     ELSE top

\* seed: modelConfig = {...getModelConfig(config, modelName), ...options}
mergeModelConfig(cfg, modelName, options) ==
  Spread(getModelConfig(cfg, modelName), options)

\* a seed that resets whatever the configuration says
shouldResetAlways(modelConfig, cfg) == TRUE

\* a seed that never resets
shouldResetNever(modelConfig, cfg) == FALSE

\* seed: modelConfig.reset || this.config.global?.reset
shouldReset(modelConfig, cfg) ==
  (Has(modelConfig, "reset") /\ modelConfig.reset) \/ cfg.global.reset

\* config.fields?.[field.name]; an absent entry reads as the empty object
fieldConfigOf(modelConfig, fieldName) ==
  IF Has(modelConfig, "fields") /\ Has(modelConfig.fields, fieldName)
  THEN modelConfig.fields[fieldName]
  ELSE <<>>

\* ------------------------------------------------- field value synthesis
\* the defaults of a schema path that are functions (Date.now and the like)
FunctionDefaults == {"function"}

\* a value a generator may return is <<v>>; <<>> stands for undefined
Some(v) == <<v>>
None == <<>>

\* null as the value of a field
NullValue == "null"

\* the first hint of StringGenerator.generate that the lower-cased field name
\* includes, for the field names of the registries; undefined when none does
StringHint(fieldName) ==
  CASE fieldName = "email" -> "<email>"
    [] fieldName \in {"name", "firstName"} -> "<firstName>"
    [] fieldName \in {"description", "bio"} -> "<paragraph>"
    [] fieldName = "title" -> "<sentence>"
    [] OTHER -> undefined

\* typeof faker[part]: the modules of faker are objects, seed is a method
FakerMemberType(part) ==
  CASE part \in {"lorem", "internet", "person"} -> "object"
    [] part = "seed" -> "function"
    [] OTHER -> "undefined"

\* typeof value[part], where value is faker or what a call on it returned
MemberType(value, part) ==
  IF value = "faker" THEN FakerMemberType(part) ELSE "undefined"

\* String(value[part]()) for the methods of faker
CallMember(value, part) == "<seed>"

\* StringGenerator.useCustomGenerator: the loop over generator.split("."),
\* given here as the sequence of its parts
RECURSIVE useCustomGeneratorFrom(_, _)
useCustomGeneratorFrom(value, parts) ==
  IF parts = <<>> THEN value
  ELSE IF MemberType(value, Head(parts)) = "function"
  THEN useCustomGeneratorFrom(CallMember(value, Head(parts)), Tail(parts))
  ELSE "<words>"

useCustomGenerator(generator) == useCustomGeneratorFrom("faker", generator)

\* StringGenerator.generate
StringGenerator(fieldName, fieldConfig) ==
  IF StringHint(fieldName) # undefined THEN StringHint(fieldName)
  ELSE IF Has(fieldConfig, "generator") THEN useCustomGenerator(fieldConfig.generator)
  ELSE IF Has(fieldConfig, "pattern") THEN "<pattern>"
  ELSE "<words>"

\* EnumGenerator.generate: a member of config.values, null when there is none
EnumGenerator(fieldConfig) ==
  IF Has(fieldConfig, "values") /\ Len(fieldConfig.values) > 0
  THEN RangeOf(fieldConfig.values)
  ELSE {NullValue}

\* {...fieldConfig, values: field.enumValues || fieldConfig?.values}: the
\* field's list, even an empty one, comes before the list of the config
enumConfig(field, fieldConfig) ==
  IF Has(field, "enumValues") THEN Spread(fieldConfig, [values |-> field.enumValues])
  ELSE fieldConfig

\* new mongoose.Types.ObjectId(): an identifier no document of the store has
newObjectId == -1

\* the type switch of generateFieldValue: the values the case may return
GeneratedValue(type, field, fieldConfig) ==
  CASE type = "string" -> {StringGenerator(field.name, fieldConfig)}
    [] type = "number" -> {"<number>"}
    [] type \in {"date", "datetime"} -> {"<date>"}
    [] type = "boolean" -> {"<boolean>"}
    [] type = "enum" -> EnumGenerator(enumConfig(field, fieldConfig))
    [] type = "objectid" -> {newObjectId}
    [] type = "array" -> {"<array>"}
    [] type = "json" -> {"<object>"}
    [] OTHER -> {StringGenerator(field.name, fieldConfig)}

\* Seeder.shouldSkipField
shouldSkipField(field, modelConfig) ==
  \/ field.name \in {"id", "_id"}
  \/ /\ Has(fieldConfigOf(modelConfig, field.name), "ignore")
     /\ fieldConfigOf(modelConfig, field.name).ignore

\* Seeder.generateFieldValue: the values one call may return
generateFieldValue(field, fieldConfig) ==
  IF Has(fieldConfig, "ignore") /\ fieldConfig.ignore THEN {None}
  ELSE IF field.name \in {"id", "_id"} THEN {None}
  ELSE IF field.defaultValue # undefined
  THEN IF field.defaultValue \in FunctionDefaults THEN {None}
       ELSE {Some(field.defaultValue)}
  ELSE IF Has(fieldConfig, "defaultValue") THEN {Some(fieldConfig.defaultValue)}
  ELSE {Some(v) : v \in GeneratedValue(IF Has(fieldConfig, "type") THEN fieldConfig.type
                                       ELSE field.type,
                                       field, fieldConfig)}

\* --------------------------------------------------- reference resolver
\* most documents resolveReference asks the store for
FindLimit == 100

IdsOf(docs) == {docs[n]._id : n \in 1..Len(docs)}

\* find().limit(n): limit(0) asks for no limit
Limit(docs, n) ==
  IF n = 0 \/ n >= Len(docs) THEN docs ELSE SubSeq(docs, 1, n)

\* the resolver's answer when it finds no record: an identifier it makes up
noReferenceFabricated == {nextId + FindLimit}

\* the resolver's answer when it finds no record
noReference == {null}

\* a resolver without its catch: the error of the store query leaves it
findErrorThrown(findThrows) == findThrows

\* the catch of resolveReference: the error of the store query is logged and
\* never leaves the resolver
findErrorRaised(findThrows) == FALSE

\* a resolver that never finds a record
resolveReferenceNever(field, gd, st, findThrows) == {null}

\* Seeder.resolveReference: the values one call may return, given the
\* GeneratedRecordSet gd, the collections st and whether the store query throws
resolveReference(field, gd, st, findThrows) ==
  IF field.relationModel = undefined THEN {null}
  ELSE LET rel == field.relationModel
           relatedData == IF Has(gd, rel) THEN gd[rel] ELSE <<>>
       IN IF Len(relatedData) > 0
          THEN IdsOf(relatedData)
          ELSE IF rel \in mongooseModels /\ ~findThrows /\ Len(st[rel]) > 0
          THEN IdsOf(Limit(st[rel], FindLimit))
          ELSE noReference

\* whether resolveReference for this field gets as far as the store query
queriesStore(field, gd) ==
  /\ field.relationModel # undefined
  /\ ~(Has(gd, field.relationModel) /\ Len(gd[field.relationModel]) > 0)
  /\ field.relationModel \in mongooseModels

\* ------------------------------------------------------ generateModelData
Put(rec, key, value) == [k \in DOMAIN rec \cup {key} |-> IF k = key THEN value ELSE rec[k]]

\* if (value !== undefined) record[field.name] = value
WithValue(rec, fieldName, value) ==
  IF value = None THEN rec ELSE Put(rec, fieldName, value[1])

\* the records one pass over model.fields may build (lines 110-155); a foreign
\* key always has the relation type oneToOne (parseSchemaPath), so its value is
\* the single reference
RECURSIVE RecordChoices(_, _, _, _, _)
RecordChoices(fields, modelConfig, gd, st, findThrows) ==
  IF fields = <<>> THEN {<<>>}
  ELSE LET field == Head(fields)
           rest == RecordChoices(Tail(fields), modelConfig, gd, st, findThrows)
           values == generateFieldValue(field, fieldConfigOf(modelConfig, field.name))
       IN IF shouldSkipField(field, modelConfig) THEN rest
          ELSE IF field.isForeignKey /\ field.relationModel # undefined
          THEN {IF ref = null THEN rec ELSE Put(rec, field.name, ref) :
                  rec \in rest, ref \in resolveReference(field, gd, st, findThrows)}
          ELSE {WithValue(rec, field.name, value) : rec \in rest, value \in values}

\* the loop bound i <= count
RecordIndexesOneMore(count) == 1..(count + 1)

\* for (let i = 0; i < count; i++)
RecordIndexes(count) == 1..count

\* Seeder.generateModelData: every list of records one call may return
generateModelData(model, count, modelConfig, gd, st, findThrows) ==
  [RecordIndexes(count) -> RecordChoices(model.fields, modelConfig, gd, st, findThrows)]

\* ---------------------------------------------------------- the store
\* the documents the store makes of the records, with increasing ObjectIds
Documents(records, firstId) ==
  [n \in 1..Len(records) |-> Put(records[n], "_id", firstId + n - 1)]

Shuffles(s) ==
  {[n \in 1..Len(s) |-> s[p[n]]] :
     p \in {q \in [1..Len(s) -> 1..Len(s)] : \A a, b \in 1..Len(s) : a # b => q[a] # q[b]}}

\* insertData: the order the records are handed to the store in; _.shuffle
\* when randomize is set, the generated order otherwise
insertOrders(data, cfg) ==
  IF cfg.global.randomize THEN Shuffles(data) ELSE {data}

\* insertData: the storage call the records are inserted with; doc.save() for
\* each record when the global config asks to randomize, one insertMany otherwise
insertCall(cfg) ==
  IF cfg.global.randomize THEN "save" ELSE "insertMany"

\* a find() without the sort: the documents in insertion order
SortAsInserted(docs) == docs

\* find().sort({_id: -1}): the documents by descending _id
RECURSIVE SortDescending(_)
SortDescending(docs) ==
  IF docs = <<>> THEN <<>>
  ELSE LET top == CHOOSE n \in 1..Len(docs) :
                    \A q \in 1..Len(docs) : docs[q]._id <= docs[n]._id
       IN <<docs[top]>> \o
          SortDescending(SubSeq(docs, 1, top - 1) \o SubSeq(docs, top + 1, Len(docs)))

\* Seeder.fetchInsertedRecords: [] when the query throws
fetchInsertedRecords(docs, count, fetchThrows) ==
  IF fetchThrows THEN <<>> ELSE Limit(SortDescending(docs), count)

\* ------------------------------------------------------------- seed
\* a failure that leaves the error with the caller of seed
rethrowError(modelName, message) ==
  [raised |-> TRUE, model |-> modelName, error |-> message]

\* a catch block that reports the failed seed as a success
catchErrorAsSuccess(modelName, message) ==
  [raised |-> FALSE, model |-> modelName, count |-> 0, success |-> TRUE,
   error |-> message]

\* a catch block that counts a record of the failed seed
catchErrorCountsOne(modelName, message) ==
  [raised |-> FALSE, model |-> modelName, count |-> 1, success |-> FALSE,
   error |-> message]

\* the catch block of seed
catchError(modelName, message) ==
  [raised |-> FALSE, model |-> modelName, count |-> 0, success |-> FALSE,
   error |-> message]

\* the SeedResult of a seed that reached its return
successResult(modelName, count) ==
  [raised |-> FALSE, model |-> modelName, count |-> count, success |-> TRUE]

\* the storage failures one seed call may meet
Failures == {"none", "deleteMany", "find", "insert", "fetch"}

\* the observation of a seed call: its arguments, the storage failure it met,
\* the storage operations it made, and what it generated and persisted
Observe(modelName, count, options, inRun, fail, ops, result, merged, atGenerate, data,
        handed, inserted) ==
  [op |-> "seed", model |-> modelName, count |-> count, options |-> options,
   inRun |-> inRun, fail |-> fail, ops |-> ops, result |-> result, merged |-> merged,
   preStore |-> store, preGenerated |-> generatedData, atGenerate |-> atGenerate,
   data |-> data, handed |-> handed, inserted |-> inserted,
   insertCall |-> insertCall(config)]

\* a seed call that throws before it generates anything
SeedThrowsEarly(modelName, count, options, inRun, fail, ops, message, merged) ==
  /\ UNCHANGED <<store, generatedData, nextId>>
  /\ last' = Observe(modelName, count, options, inRun, fail, ops,
                     catchError(modelName, message), merged, store, <<>>, <<>>, <<>>)

\* whether generateModelData gets as far as a store query for some field
generationQueriesStore(model, count, modelConfig, gd) ==
  /\ count > 0
  /\ \E field \in RangeOf(model.fields) :
       /\ ~shouldSkipField(field, modelConfig)
       /\ field.isForeignKey
       /\ queriesStore(field, gd)

\* seed(modelName, count, options), lines 55-99, as one step
SeedCall(modelName, count, options, inRun) ==
  /\ calls' = calls + 1
  /\ UNCHANGED inflight
  /\ LET m == findModel(models, modelName)
     IN IF m = 0
        THEN SeedThrowsEarly(modelName, count, options, inRun, "none", {},
                             "not found in schema", <<>>)
        ELSE IF modelName \notin mongooseModels
        THEN SeedThrowsEarly(modelName, count, options, inRun, "none", {},
                             "not loaded", <<>>)
        ELSE LET modelConfig == mergeModelConfig(config, modelName, options)
                 reset == shouldReset(modelConfig, config)
                 cleared == IF reset THEN [store EXCEPT ![modelName] = <<>>] ELSE store
                 finds == generationQueriesStore(models[m], count, modelConfig,
                                                 generatedData)
                 inserts == insertCall(config) = "insertMany" \/ count > 0
                 opsToInsert == (IF reset THEN {"deleteMany"} ELSE {}) \cup
                                (IF finds THEN {"find"} ELSE {}) \cup
                                (IF inserts THEN {"insert"} ELSE {})
             IN \E fail \in Failures :
                  \/ /\ fail = "deleteMany"
                     /\ reset
                     /\ SeedThrowsEarly(modelName, count, options, inRun, fail,
                                        {"deleteMany"}, "deleteMany rejected", modelConfig)
                  \/ /\ fail = "find"
                     /\ finds
                     /\ findErrorRaised(TRUE)
                     /\ store' = cleared
                     /\ UNCHANGED <<generatedData, nextId>>
                     /\ last' = Observe(modelName, count, options, inRun, fail,
                                        opsToInsert \ {"insert"},
                                        catchError(modelName, "find rejected"),
                                        modelConfig, cleared, <<>>, <<>>, <<>>)
                  \/ /\ fail \in {"none", "find", "insert", "fetch"}
                     /\ ~findErrorRaised(fail = "find")
                     /\ fail = "find" => finds
                     /\ fail = "insert" => inserts
                     /\ \E data \in generateModelData(models[m], count, modelConfig,
                                                      generatedData, cleared, fail = "find") :
                        \E handed \in insertOrders(data, config) :
                          IF fail = "insert"
                          THEN \E k \in 0..(IF Len(handed) = 0 THEN 0 ELSE Len(handed) - 1) :
                                 LET saved == Documents(SubSeq(handed, 1, k), nextId)
                                 IN /\ store' = [cleared EXCEPT ![modelName] = @ \o saved]
                                    /\ nextId' = nextId + k
                                    /\ UNCHANGED generatedData
                                    /\ last' = Observe(modelName, count, options, inRun, fail,
                                                       opsToInsert,
                                                       catchError(modelName, "insert rejected"),
                                                       modelConfig, cleared, data, handed, saved)
                          ELSE LET saved == Documents(handed, nextId)
                                   after == [cleared EXCEPT ![modelName] = @ \o saved]
                               IN /\ store' = after
                                  /\ nextId' = nextId + Len(saved)
                                  /\ generatedData' =
                                       Spread(generatedData,
                                              (modelName :> fetchInsertedRecords(
                                                 after[modelName], Len(saved), fail = "fetch")))
                                  /\ last' = Observe(modelName, count, options, inRun, fail,
                                                     opsToInsert \cup {"fetch"},
                                                     successResult(modelName, Len(saved)),
                                                     modelConfig, cleared, data, handed, saved)

\* the options a caller passes to seed: none, a reset, a randomize (the CLI's
\* --reset and --randomize), or an override of a field the model has
OptionChoices(modelName) ==
  { <<>>, [reset |-> TRUE], [randomize |-> TRUE] } \cup
  (IF modelName = "Post"
   THEN { [fields |-> [published |-> [defaultValue |-> "fromCall"]]] }
   ELSE {}) \cup
  (IF modelName = "Team"
   THEN { [fields |-> [members |-> [ignore |-> TRUE]]],
          [relations |-> [members |-> [max |-> 1]]] }
   ELSE {})

\* a call seed(modelName, count, options) by the user of the Seeder
Seed ==
  /\ Idle
  /\ calls < MaxCalls
  /\ \E modelName \in ModelNames(models) \cup {"Ghost"}, count \in 0..MaxCount :
       \E options \in OptionChoices(modelName) :
         SeedCall(modelName, count, options, FALSE)
  /\ pc' = "idle"
  /\ UNCHANGED <<seederVars, sortVars, results, runLog>>

\* count when the config-file entry gives none
DefaultCount == 10

\* one iteration of seedAll's loop over sortedModels, lines 320-326
SeedAllStep ==
  /\ pc = "loop"
  /\ Len(results) < Len(sorted)
  /\ LET model == sorted[Len(results) + 1]
         modelConfig == getModelConfig(config, model.name)
         count == IF Has(modelConfig, "count") /\ modelConfig.count # 0
                  THEN modelConfig.count ELSE DefaultCount
     IN SeedCall(model.name, count, modelConfig, TRUE)
  /\ IF last'.result.raised
     THEN /\ pc' = "rejected"
          /\ UNCHANGED results
     ELSE /\ pc' = pc
          /\ results' = Append(results, last'.result)
  /\ runLog' = Append(runLog, [model |-> last'.model, fail |-> last'.fail,
                               ids |-> IdsOf(last'.inserted),
                               preStore |-> last'.preStore,
                               preGenerated |-> last'.preGenerated])
  /\ UNCHANGED <<seederVars, sortVars>>

\* return results
SeedAllReturn ==
  /\ pc = "loop"
  /\ Len(results) = Len(sorted)
  /\ pc' = "returned"
  /\ UNCHANGED <<seederVars, sortVars, dataVars, results, runLog, last>>

Next == NextSort \/ Seed \/ SeedAllStep \/ SeedAllReturn

\* ------------------------------------------------- registries of SortSpec
Targets == {"A", "B", "C", "Ghost"}

RECURSIVE SeqsUpTo(_, _)
SeqsUpTo(S, n) ==
  IF n = 0 THEN {<<>>}
  ELSE LET shorter == SeqsUpTo(S, n - 1)
       IN shorter \cup {Append(s, x) : s \in shorter, x \in S}

RefFields(targets) ==
  [n \in 1..Len(targets) |-> RefField("ref" \o ToString(n), targets[n])]

SortRegistries ==
  LET choices == SeqsUpTo(Targets, MaxFksPerModel)
  IN { <<SchemaModel("A", <<IdField>> \o RefFields(a)),
         SchemaModel("B", <<IdField>> \o RefFields(b)),
         SchemaModel("C", <<IdField>> \o RefFields(c))>> :
       <<a, b, c>> \in {t \in choices \X choices \X choices :
                          Len(t[1]) + Len(t[2]) + Len(t[3]) <= MaxFks} }

\* the config ConfigLoader.load returns when there is no config file
\* new MongooseParser(schemasPath, dbUrl): not connected, no model loaded;
\* dbUrl tells whether DATABASE_URL is set, schemas counts the model files
NewParser(dbUrl, schemas) ==
  [isConnected |-> FALSE, size |-> 0, dbUrl |-> dbUrl, schemas |-> schemas]

\* the mongoose connection: readyState 1 is connected, 0 disconnected;
\* registered counts Object.keys(connection.models), opened the connections
\* the parser has opened
Connection(readyState, registered, opened) ==
  [readyState |-> readyState, registered |-> registered, opened |-> opened]

\* the parser and the connection after Seeder.initialize() found the models
InitializedParser(names) ==
  [isConnected |-> TRUE, size |-> Cardinality(names), dbUrl |-> TRUE,
   schemas |-> Cardinality(names)]

InitializedConnection(names) == Connection(1, Cardinality(names), 1)

EmptyConfig == [global |-> <<>>, models |-> <<>>]

InitSort ==
  /\ models \in SortRegistries
  /\ mongooseModels = ModelNames(models)
  /\ config = mergeWithDefaults(EmptyConfig)
  /\ generatedData = <<>>
  /\ store = [n \in ModelNames(models) |-> <<>>]
  /\ nextId = 1
  /\ pc = "idle"
  /\ sorted = <<>>
  /\ visited = {}
  /\ visiting = {}
  /\ stack = <<>>
  /\ idx = 1
  /\ results = <<>>
  /\ runLog = <<>>
  /\ last = NoCall
  /\ calls = 0
  /\ inflight = {}
  /\ parser = InitializedParser(mongooseModels)
  /\ connection = InitializedConnection(mongooseModels)

SortSpec == InitSort /\ [][NextSort]_vars
FairSortSpec == SortSpec /\ WF_vars(NextSort)

\* ------------------------------------------------- the Mongoose parser
\* MongooseParser.connect: what one call may leave, and whether it throws
connect(p, c) ==
  IF p.isConnected \/ c.readyState = 1
  THEN {[parser |-> [p EXCEPT !.isConnected = TRUE], connection |-> c, threw |-> FALSE]}
  ELSE IF ~p.dbUrl
  THEN {[parser |-> p, connection |-> c, threw |-> TRUE]}
  ELSE {[parser |-> [p EXCEPT !.isConnected = TRUE],
         connection |-> [c EXCEPT !.readyState = 1, !.opened = @ + 1],
         threw |-> FALSE],
        [parser |-> p, connection |-> c, threw |-> TRUE]}

\* MongooseParser.loadModels: the models registered beforehand and the models
\* of the files are registered with mongoose and put into this.models
loadModels(p, c) ==
  LET registered == IF c.registered > p.schemas THEN c.registered ELSE p.schemas
  IN [parser |-> [p EXCEPT !.size = registered],
      connection |-> [c EXCEPT !.registered = registered],
      threw |-> FALSE]

\* MongooseParser.disconnect
disconnect(p, c) ==
  IF p.isConnected /\ c.readyState = 1
  THEN IF c.registered = 0 \/ p.size = 0
       THEN [parser |-> [p EXCEPT !.isConnected = FALSE],
             connection |-> [c EXCEPT !.readyState = 0]]
       ELSE [parser |-> [p EXCEPT !.isConnected = FALSE], connection |-> c]
  ELSE [parser |-> p, connection |-> c]

\* the observation of a call on the parser
ParserCall(op, threw) ==
  [op |-> op, threw |-> threw, preParser |-> parser, preConnection |-> connection]

\* what a call on the parser leaves alone
ParserFrame ==
  UNCHANGED <<models, mongooseModels, config, sortVars, generatedData, store, nextId,
              inflight, pc, results, runLog>>

\* a call parser.connect()
ParserConnect ==
  /\ calls < MaxParserCalls
  /\ calls' = calls + 1
  /\ \E outcome \in connect(parser, connection) :
       /\ parser' = outcome.parser
       /\ connection' = outcome.connection
       /\ last' = ParserCall("connect", outcome.threw)
  /\ ParserFrame

\* a call parser.parseSchema(): connect, then loadModels
ParserParseSchema ==
  /\ calls < MaxParserCalls
  /\ calls' = calls + 1
  /\ \E connected \in connect(parser, connection) :
       LET outcome == IF connected.threw THEN connected
                      ELSE loadModels(connected.parser, connected.connection)
       IN /\ parser' = outcome.parser
          /\ connection' = outcome.connection
          /\ last' = ParserCall("parseSchema", outcome.threw)
  /\ ParserFrame

\* a call parser.disconnect(), which is Seeder.disconnect()
ParserDisconnect ==
  /\ calls < MaxParserCalls
  /\ calls' = calls + 1
  /\ parser' = disconnect(parser, connection).parser
  /\ connection' = disconnect(parser, connection).connection
  /\ last' = ParserCall("disconnect", FALSE)
  /\ ParserFrame

ParserNext == ParserConnect \/ ParserParseSchema \/ ParserDisconnect

\* a new parser; the application may have connected mongoose and registered
\* models before
InitParser ==
  /\ \E dbUrl \in BOOLEAN, schemas \in 0..MaxSchemas : parser = NewParser(dbUrl, schemas)
  /\ \E readyState \in {0, 1}, registered \in 0..MaxSchemas :
       connection = Connection(readyState, registered, 0)
  /\ models = <<>>
  /\ mongooseModels = {}
  /\ config = mergeWithDefaults(EmptyConfig)
  /\ generatedData = <<>>
  /\ store = <<>>
  /\ nextId = 1
  /\ pc = "idle"
  /\ sorted = <<>>
  /\ visited = {}
  /\ visiting = {}
  /\ stack = <<>>
  /\ idx = 1
  /\ results = <<>>
  /\ runLog = <<>>
  /\ last = NoCall
  /\ calls = 0
  /\ inflight = {}

ParserSpec == InitParser /\ [][ParserNext]_vars


\* --------------------------------------------------- registries of Spec
\* src/models/User.ts
UserModel ==
  SchemaModel("User",
    <<Field("email", "string", FALSE, FALSE, undefined, undefined),
      Field("isActive", "boolean", FALSE, FALSE, undefined, "true"),
      IdField>>)

\* src/models/Post.ts
PostModel ==
  SchemaModel("Post",
    <<Field("title", "string", FALSE, FALSE, undefined, undefined),
      Field("published", "boolean", FALSE, FALSE, undefined, "false"),
      RefField("authorId", "User"),
      IdField>>)

\* two models that reference each other
MutualA == SchemaModel("A", <<RefField("bId", "B"), IdField>>)
MutualB == SchemaModel("B", <<RefField("aId", "A"), IdField>>)

\* a model that references itself and a model that is not registered
CategoryModel ==
  SchemaModel("Category",
    <<Field("name", "string", FALSE, FALSE, undefined, undefined),
      RefField("parentId", "Category"),
      RefField("ownerId", "Ghost"),
      IdField>>)

\* a registry with the models entries of the config files tried on it
Scenarios ==
  { [models |-> <<PostModel, UserModel>>,
     file |-> [User |-> [count |-> UserCount], Post |-> [count |-> PostCount]]],
    [models |-> <<PostModel, UserModel>>,
     file |-> [User |-> [count |-> 1],
               Post |-> [count |-> 1,
                         fields |-> [title |-> [defaultValue |-> "fromConfig"],
                                     published |-> [defaultValue |-> "fromConfig"]]]]],
    [models |-> <<MutualA, MutualB>>,
     file |-> [A |-> [count |-> 1], B |-> [count |-> 1]]],
    [models |-> <<CategoryModel>>,
     file |-> [Category |-> [count |-> 1]]] }

\* the global section of the config file
GlobalChoices == { <<>>, [reset |-> TRUE] }

\* the collections before the Seeder runs: each holds 0..MaxPre documents
RECURSIVE InitialStore(_, _, _)
InitialStore(names, sizes, firstId) ==
  IF names = <<>> THEN <<>>
  ELSE LET name == Head(names)
       IN (name :> [n \in 1..sizes[name] |-> [_id |-> firstId + n - 1]])
          @@ InitialStore(Tail(names), sizes, firstId + sizes[name])

RECURSIVE SumSizes(_, _)
SumSizes(names, sizes) ==
  IF names = <<>> THEN 0 ELSE sizes[Head(names)] + SumSizes(Tail(names), sizes)

NamesOf(ms) == [n \in 1..Len(ms) |-> ms[n].name]

\* the state after new Seeder(options) and initialize()
Init ==
  /\ \E scenario \in Scenarios, global \in GlobalChoices :
       /\ models = scenario.models
       /\ config = mergeWithDefaults([global |-> global, models |-> scenario.file])
  /\ mongooseModels = ModelNames(models)
  /\ generatedData = <<>>
  /\ \E sizes \in [ModelNames(models) -> 0..MaxPre] :
       /\ store = InitialStore(NamesOf(models), sizes, 1)
       /\ nextId = 1 + SumSizes(NamesOf(models), sizes)
  /\ pc = "idle"
  /\ sorted = <<>>
  /\ visited = {}
  /\ visiting = {}
  /\ stack = <<>>
  /\ idx = 1
  /\ results = <<>>
  /\ runLog = <<>>
  /\ last = NoCall
  /\ calls = 0
  /\ inflight = {}
  /\ parser = InitializedParser(mongooseModels)
  /\ connection = InitializedConnection(mongooseModels)

Spec == Init /\ [][Next]_vars

\* the Seeder on User and Post with randomize set in the global section of the
\* config file
RandomGlobalChoices == { [randomize |-> TRUE], [randomize |-> TRUE, reset |-> TRUE] }

InitRandom ==
  /\ models = <<PostModel, UserModel>>
  /\ \E global \in RandomGlobalChoices :
       config = mergeWithDefaults(
                  [global |-> global,
                   models |-> [User |-> [count |-> UserCount],
                               Post |-> [count |-> PostCount]]])
  /\ mongooseModels = ModelNames(models)
  /\ generatedData = <<>>
  /\ \E sizes \in [ModelNames(models) -> 0..MaxPre] :
       /\ store = InitialStore(NamesOf(models), sizes, 1)
       /\ nextId = 1 + SumSizes(NamesOf(models), sizes)
  /\ pc = "idle"
  /\ sorted = <<>>
  /\ visited = {}
  /\ visiting = {}
  /\ stack = <<>>
  /\ idx = 1
  /\ results = <<>>
  /\ runLog = <<>>
  /\ last = NoCall
  /\ calls = 0
  /\ inflight = {}
  /\ parser = InitializedParser(mongooseModels)
  /\ connection = InitializedConnection(mongooseModels)

RandomSpec == InitRandom /\ [][Next]_vars

\* the models entries of the config files tried on the Registry of User alone:
\* no entry, an entry without a count, a count of 0, a count of 1
CountFiles ==
  { <<>>, [User |-> <<>>], [User |-> [count |-> 0]], [User |-> [count |-> 1]] }

InitCount ==
  /\ models = <<UserModel>>
  /\ \E file \in CountFiles, global \in GlobalChoices :
       config = mergeWithDefaults([global |-> global, models |-> file])
  /\ mongooseModels = ModelNames(models)
  /\ generatedData = <<>>
  /\ \E sizes \in [ModelNames(models) -> 0..MaxPre] :
       /\ store = InitialStore(NamesOf(models), sizes, 1)
       /\ nextId = 1 + SumSizes(NamesOf(models), sizes)
  /\ pc = "idle"
  /\ sorted = <<>>
  /\ visited = {}
  /\ visiting = {}
  /\ stack = <<>>
  /\ idx = 1
  /\ results = <<>>
  /\ runLog = <<>>
  /\ last = NoCall
  /\ calls = 0
  /\ inflight = {}
  /\ parser = InitializedParser(mongooseModels)
  /\ connection = InitializedConnection(mongooseModels)

CountSpec == InitCount /\ [][Next]_vars

\* ===================================================== the Prisma Seeder
\* The Seeder over Prisma keeps the same fields; mongooseModels stands for the
\* model names the Prisma client has a delegate for (this.prisma[camelCaseName]),
\* and a stored row is the create() input with the id column filled in.

\* Seeder.shouldSkipField: auto-generated numeric primary keys and ignored fields
prismaShouldSkipField(field, modelConfig) ==
  \/ field.isPrimaryKey /\ field.type = "number"
  \/ /\ Has(fieldConfigOf(modelConfig, field.name), "ignore")
     /\ fieldConfigOf(modelConfig, field.name).ignore

\* the string defaults generateFieldValue leaves to the database
DatabaseDefaults == {"now()", "uuid()", "autoincrement()"}

\* the type switch of generateFieldValue: the values the case may return
prismaGeneratedValue(type, field, fieldConfig) ==
  CASE type = "string" -> {StringGenerator(field.name, fieldConfig)}
    [] type = "number" -> {"<number>"}
    [] type \in {"date", "datetime"} -> {"<date>"}
    [] type = "boolean" -> {"<boolean>"}
    [] type = "enum" -> EnumGenerator(enumConfig(field, fieldConfig))
    [] OTHER -> {StringGenerator(field.name, fieldConfig)}

\* Seeder.generateFieldValue: the values one call may return
prismaGenerateFieldValue(field, fieldConfig) ==
  IF Has(fieldConfig, "ignore") /\ fieldConfig.ignore THEN {None}
  ELSE IF field.isPrimaryKey /\ field.type = "number" THEN {None}
  ELSE IF field.defaultValue # undefined
  THEN IF field.defaultValue \in DatabaseDefaults THEN {None}
       ELSE {Some(field.defaultValue)}
  ELSE IF Has(fieldConfig, "defaultValue") THEN {Some(fieldConfig.defaultValue)}
  ELSE {Some(v) : v \in prismaGeneratedValue(IF Has(fieldConfig, "type")
                                             THEN fieldConfig.type ELSE field.type,
                                             field, fieldConfig)}

\* field.name.replace(/Id$/, ""), for the field names of the registries
relationNameOf(fieldName) ==
  CASE fieldName = "authorId" -> "author"
    [] OTHER -> fieldName

\* the model name derived from a field name that ends in Id, when the parser
\* found no relation model
relationModelNameOf(field) ==
  IF field.relationModel # undefined THEN field.relationModel
  ELSE CASE field.name = "authorId" -> "Author"
         [] OTHER -> undefined

\* findMany({take: 100})
PrismaTake == 100

prismaIdsOf(docs) == {docs[n].id : n \in 1..Len(docs)}

\* Seeder.resolveForeignKey: the values one call may return. A sampled record
\* of the GeneratedRecordSet that carries no id sends the call on to the store.
resolveForeignKey(field, gd, st, findThrows) ==
  IF field.relationModel = undefined THEN {null}
  ELSE LET rel == field.relationModel
           relatedData == IF Has(gd, rel) THEN gd[rel] ELSE <<>>
           withId == {n \in 1..Len(relatedData) : Has(relatedData[n], "id")}
           goesOn == withId # 1..Len(relatedData) \/ Len(relatedData) = 0
           fromStore == IF rel \in mongooseModels /\ ~findThrows /\ Len(st[rel]) > 0
                        THEN prismaIdsOf(Limit(st[rel], PrismaTake))
                        ELSE {null}
       IN {relatedData[n].id : n \in withId} \cup (IF goesOn THEN fromStore ELSE {})

\* the records one pass over model.fields may build (lines 103-141)
RECURSIVE prismaRecordChoices(_, _, _, _, _)
prismaRecordChoices(fields, modelConfig, gd, st, findThrows) ==
  IF fields = <<>> THEN {<<>>}
  ELSE LET field == Head(fields)
           rest == prismaRecordChoices(Tail(fields), modelConfig, gd, st, findThrows)
           values == prismaGenerateFieldValue(field,
                                              fieldConfigOf(modelConfig, field.name))
           target == [field EXCEPT !.relationModel = relationModelNameOf(field)]
       IN IF prismaShouldSkipField(field, modelConfig) THEN rest
          ELSE IF field.isForeignKey
          THEN IF relationModelNameOf(field) = undefined THEN rest
               ELSE {IF fk = null THEN rec
                     ELSE Put(rec, relationNameOf(field.name), [connect |-> [id |-> fk]]) :
                       rec \in rest, fk \in resolveForeignKey(target, gd, st, findThrows)}
          ELSE {WithValue(rec, field.name, value) : rec \in rest, value \in values}

\* Seeder.generateModelData: every list of records one call may return
prismaGenerateModelData(model, count, modelConfig, gd, st, findThrows) ==
  [RecordIndexes(count) -> prismaRecordChoices(model.fields, modelConfig, gd, st, findThrows)]

\* whether the generation gets as far as a findMany for some field
prismaQueriesStore(model, count, modelConfig, gd) ==
  /\ count > 0
  /\ \E field \in RangeOf(model.fields) :
       /\ ~prismaShouldSkipField(field, modelConfig)
       /\ field.isForeignKey
       /\ relationModelNameOf(field) \in mongooseModels
       /\ LET rel == relationModelNameOf(field)
          IN IF Has(gd, rel)
             THEN IF Len(gd[rel]) = 0 THEN TRUE
                  ELSE \E n \in 1..Len(gd[rel]) : ~Has(gd[rel][n], "id")
             ELSE TRUE

\* the id column of the model is numeric (autoincrement) rather than a uuid
NumericKey(modelName) ==
  \E f \in RangeOf(models[findModel(models, modelName)].fields) :
    f.isPrimaryKey /\ f.type = "number"

\* the row create() stores: the database fills in the id column unless the
\* record has it
prismaDocument(modelName, record, id) ==
  IF Has(record, "id") THEN record
  ELSE Put(record, "id", IF NumericKey(modelName) THEN id ELSE "<uuid>")

prismaDocuments(modelName, records, firstId) ==
  [n \in 1..Len(records) |-> prismaDocument(modelName, records[n], firstId + n - 1)]

\* the result of a seed whose creates are still outstanding
Pending == [pending |-> TRUE]

\* the observation of a seed call of the Prisma Seeder
PrismaObserve(modelName, count, options, inRun, fail, ops, result, merged, atInsert, data, inserted) ==
  [op |-> "seed", model |-> modelName, count |-> count, options |-> options,
   inRun |-> inRun, fail |-> fail, ops |-> ops, result |-> result, merged |-> merged,
   preStore |-> store, preGenerated |-> generatedData, atInsert |-> atInsert,
   data |-> data, inserted |-> inserted]

\* seed returns its SeedResult: to the user, or to the loop of seedAll
PrismaReturn(result, inRun, fail) ==
  IF inRun
  THEN /\ pc' = "loop"
       /\ results' = Append(results, result)
       /\ runLog' = Append(runLog, [model |-> result.model, fail |-> fail])
  ELSE /\ pc' = "idle"
       /\ UNCHANGED <<results, runLog>>

\* seed's catch block after the storage calls ops, with the rows in after
PrismaFails(modelName, count, options, inRun, fail, ops, message, merged, data, after, inserted) ==
  /\ store' = [after EXCEPT ![modelName] = @ \o inserted]
  /\ nextId' = nextId + Len(inserted)
  /\ UNCHANGED <<generatedData, inflight>>
  /\ last' = PrismaObserve(modelName, count, options, inRun, fail, ops,
                           catchError(modelName, message), merged, after, data, inserted)
  /\ PrismaReturn(catchError(modelName, message), inRun, fail)

\* seed's return after insertData resolved: generatedData.set(modelName, data)
PrismaSucceeds(modelName, count, options, inRun, ops, merged, data, after, inserted) ==
  /\ store' = [after EXCEPT ![modelName] = @ \o inserted]
  /\ nextId' = nextId + Len(inserted)
  /\ generatedData' = Spread(generatedData, (modelName :> data))
  /\ UNCHANGED inflight
  /\ last' = PrismaObserve(modelName, count, options, inRun, "none", ops,
                           successResult(modelName, Len(data)), merged, after, data,
                           inserted)
  /\ PrismaReturn(successResult(modelName, Len(data)), inRun, "none")

\* the creates Promise.all(cleanData.map(create)) issues together
CreatesOf(call, modelName, data) ==
  {[call |-> call, n |-> n, model |-> modelName, record |-> data[n]] :
     n \in 1..Len(data)}

\* seed(modelName, count, options) of the Prisma Seeder, lines 58-91, up to its
\* return or to the await of Promise.all in insertData
PrismaSeedCall(modelName, count, options, inRun) ==
  /\ calls' = calls + 1
  /\ LET m == findModel(models, modelName)
         modelConfig == mergeModelConfig(config, modelName, options)
         reset == config.global.reset
         cleared == IF reset /\ modelName \in DOMAIN store
                    THEN [store EXCEPT ![modelName] = <<>>] ELSE store
         deletes == IF reset THEN {"deleteMany"} ELSE {}
     IN IF m = 0
        THEN /\ UNCHANGED store
             /\ UNCHANGED <<nextId, generatedData, inflight>>
             /\ last' = PrismaObserve(modelName, count, options, inRun, "none", {},
                                      catchError(modelName, "not found in schema"),
                                      <<>>, store, <<>>, <<>>)
             /\ PrismaReturn(catchError(modelName, "not found in schema"), inRun, "none")
        ELSE \E findThrows \in BOOLEAN :
             /\ findThrows => prismaQueriesStore(models[m], count, modelConfig, generatedData)
             /\ \E data \in prismaGenerateModelData(models[m], count, modelConfig,
                                                    generatedData, store, findThrows) :
                  IF modelName \notin mongooseModels
                  THEN PrismaFails(modelName, count, options, inRun, "none", {},
                                   "Prisma client not found", modelConfig, data, store, <<>>)
                  ELSE \/ /\ reset
                          /\ PrismaFails(modelName, count, options, inRun, "deleteMany",
                                         {"deleteMany"}, "deleteMany rejected", modelConfig,
                                         data, store, <<>>)
                       \/ /\ config.global.randomize
                          /\ PrismaSucceeds(modelName, count, options, inRun,
                                            deletes \cup (IF count > 0 THEN {"create"} ELSE {}),
                                            modelConfig, data, cleared,
                                            prismaDocuments(modelName, data, nextId))
                       \/ /\ config.global.randomize
                          /\ \E k \in 0..(count - 1) :
                               PrismaFails(modelName, count, options, inRun, "create",
                                           deletes \cup {"create"}, "create rejected",
                                           modelConfig, data, cleared,
                                           prismaDocuments(modelName, SubSeq(data, 1, k), nextId))
                       \/ /\ ~config.global.randomize
                          /\ count = 0
                          /\ PrismaSucceeds(modelName, count, options, inRun, deletes,
                                            modelConfig, data, cleared, <<>>)
                       \/ /\ ~config.global.randomize
                          /\ count > 0
                          /\ store' = cleared
                          /\ inflight' = inflight \cup CreatesOf(calls + 1, modelName, data)
                          /\ pc' = "awaiting"
                          /\ last' = PrismaObserve(modelName, count, options, inRun, "none",
                                                   deletes \cup {"create"}, Pending,
                                                   modelConfig, cleared, data, <<>>)
                          /\ UNCHANGED <<nextId, generatedData, results, runLog>>

\* the options a caller passes to the Prisma seed: none, the CLI's --reset, or
\* an ignore of the id field
PrismaOptionChoices ==
  { <<>>, [reset |-> TRUE], [fields |-> [id |-> [ignore |-> TRUE]]] }

\* a call seed(modelName, count, options) by the user of the Seeder
PrismaSeed ==
  /\ Idle
  /\ calls < MaxCalls
  /\ \E modelName \in ModelNames(models) \cup {"Ghost"}, count \in 0..MaxCount :
       \E options \in PrismaOptionChoices :
         PrismaSeedCall(modelName, count, options, FALSE)
  /\ UNCHANGED <<seederVars, sortVars>>

\* one iteration of seedAll's loop over sortedModels, lines 310-316
PrismaSeedAllStep ==
  /\ pc = "loop"
  /\ Len(results) < Len(sorted)
  /\ LET model == sorted[Len(results) + 1]
         modelConfig == getModelConfig(config, model.name)
         count == IF Has(modelConfig, "count") /\ modelConfig.count # 0
                  THEN modelConfig.count ELSE DefaultCount
     IN PrismaSeedCall(model.name, count, modelConfig, TRUE)
  /\ UNCHANGED <<seederVars, sortVars>>

\* the seed in progress awaits Promise.all
Awaited(create) == pc = "awaiting" /\ create.call = calls

\* the store commits one of the outstanding creates
PrismaCreateCommits ==
  \E create \in inflight :
    LET doc == prismaDocument(create.model, create.record, nextId)
    IN /\ store' = [store EXCEPT ![create.model] = Append(@, doc)]
       /\ nextId' = nextId + 1
       /\ inflight' = inflight \ {create}
       /\ last' = IF Awaited(create)
                  THEN [last EXCEPT !.inserted = Append(@, doc)]
                  ELSE last
       /\ UNCHANGED <<generatedData, calls, pc, results, runLog, seederVars, sortVars>>

\* the store rejects one of the outstanding creates: Promise.all rejects and
\* seed's catch block runs, while the other creates stay outstanding; a create
\* that is rejected after its seed has returned is rejected unheard
PrismaCreateRejects ==
  \E create \in inflight :
    /\ inflight' = inflight \ {create}
    /\ IF Awaited(create)
       THEN /\ last' = [last EXCEPT !.result = catchError(last.model, "create rejected"),
                                    !.fail = "create"]
            /\ PrismaReturn(catchError(last.model, "create rejected"), last.inRun, "create")
       ELSE UNCHANGED <<last, pc, results, runLog>>
    /\ UNCHANGED <<store, nextId, generatedData, calls, seederVars, sortVars>>

\* every create of the seed in progress has been committed: Promise.all resolves,
\* generatedData.set(modelName, data), and seed returns
PrismaSeedReturns ==
  /\ pc = "awaiting"
  /\ ~\E create \in inflight : create.call = calls
  /\ generatedData' = Spread(generatedData, (last.model :> last.data))
  /\ last' = [last EXCEPT !.result = successResult(last.model, Len(last.data))]
  /\ PrismaReturn(successResult(last.model, Len(last.data)), last.inRun, "none")
  /\ UNCHANGED <<store, nextId, calls, inflight, seederVars, sortVars>>

PrismaNext ==
  \/ NextSort
  \/ PrismaSeed
  \/ PrismaSeedAllStep
  \/ PrismaCreateCommits
  \/ PrismaCreateRejects
  \/ PrismaSeedReturns
  \/ SeedAllReturn

\* model User { id Int @id @default(autoincrement())  email String }
PrismaUser ==
  SchemaModel("User",
    <<Field("id", "number", TRUE, FALSE, undefined, undefined),
      Field("email", "string", FALSE, FALSE, undefined, undefined)>>)

\* model Post { id Int @id @default(autoincrement())  title String
\*              published Boolean @default(false)
\*              author User @relation(fields: [authorId], references: [id])
\*              authorId Int }
PrismaPost ==
  SchemaModel("Post",
    <<Field("id", "number", TRUE, FALSE, undefined, undefined),
      Field("title", "string", FALSE, FALSE, undefined, undefined),
      Field("published", "boolean", FALSE, FALSE, undefined, "false"),
      Field("authorId", "number", FALSE, TRUE, "User", undefined)>>)

\* model Account { id String @id @default(uuid())  name String }
PrismaAccount ==
  SchemaModel("Account",
    <<Field("id", "string", TRUE, FALSE, undefined, undefined),
      Field("name", "string", FALSE, FALSE, undefined, undefined)>>)

\* a registry, the models entries of its config file, and the names the
\* generated client may have delegates for
PrismaScenarios ==
  { [models |-> <<PrismaPost, PrismaUser>>,
     file |-> [User |-> [count |-> UserCount], Post |-> [count |-> PostCount]],
     clients |-> {{"User", "Post"}, {"User"}}],
    [models |-> <<PrismaAccount>>,
     file |-> [Account |-> [count |-> MaxCount]],
     clients |-> {{"Account"}}] }

PrismaGlobalChoices == { <<>>, [reset |-> TRUE], [randomize |-> TRUE] }

\* the rows of a table before the Seeder runs, with the ids of the key's type
RECURSIVE PrismaInitialStore(_, _, _)
PrismaInitialStore(ms, sizes, firstId) ==
  IF ms = <<>> THEN <<>>
  ELSE LET name == Head(ms).name
           numeric == \E f \in RangeOf(Head(ms).fields) :
                        f.isPrimaryKey /\ f.type = "number"
       IN (name :> [n \in 1..sizes[name] |->
                      [id |-> IF numeric THEN firstId + n - 1 ELSE "<uuid>"]])
          @@ PrismaInitialStore(Tail(ms), sizes, firstId + sizes[name])

\* the state after new Seeder(options) and initialize() of the Prisma Seeder
InitPrisma ==
  /\ \E scenario \in PrismaScenarios, global \in PrismaGlobalChoices :
       /\ models = scenario.models
       /\ config = mergeWithDefaults([global |-> global, models |-> scenario.file])
       /\ mongooseModels \in scenario.clients
  /\ generatedData = <<>>
  /\ \E sizes \in [ModelNames(models) -> 0..MaxPre] :
       /\ store = PrismaInitialStore(models, sizes, 1)
       /\ nextId = 1 + SumSizes(NamesOf(models), sizes)
  /\ pc = "idle"
  /\ sorted = <<>>
  /\ visited = {}
  /\ visiting = {}
  /\ stack = <<>>
  /\ idx = 1
  /\ results = <<>>
  /\ runLog = <<>>
  /\ last = NoCall
  /\ calls = 0
  /\ inflight = {}
  /\ parser = NewParser(FALSE, 0)
  /\ connection = Connection(0, 0, 0)

PrismaSpec == InitPrisma /\ [][PrismaNext]_vars

\* the Seeder on a model with an array of references: a Mongoose schema Team
\* with members: [{ type: ObjectId, ref: "User" }], and User
TeamModel ==
  SchemaModel("Team",
    <<Field("label", "string", FALSE, FALSE, undefined, undefined),
      ArrayRefField("members", "User"),
      IdField>>)

\* the models entries of the config files tried on Team and User
RelationFiles ==
  { [Team |-> [count |-> 1], User |-> [count |-> 1]],
    [Team |-> [count |-> 1,
               fields |-> [label |-> [defaultValue |-> "fromConfig"]],
               relations |-> [members |-> [min |-> 1, max |-> 2]]],
     User |-> [count |-> 1]] }

InitRelation ==
  /\ models = <<TeamModel, UserModel>>
  /\ \E file \in RelationFiles, global \in GlobalChoices :
       config = mergeWithDefaults([global |-> global, models |-> file])
  /\ mongooseModels = ModelNames(models)
  /\ generatedData = <<>>
  /\ \E sizes \in [ModelNames(models) -> 0..MaxPre] :
       /\ store = InitialStore(NamesOf(models), sizes, 1)
       /\ nextId = 1 + SumSizes(NamesOf(models), sizes)
  /\ pc = "idle"
  /\ sorted = <<>>
  /\ visited = {}
  /\ visiting = {}
  /\ stack = <<>>
  /\ idx = 1
  /\ results = <<>>
  /\ runLog = <<>>
  /\ last = NoCall
  /\ calls = 0
  /\ inflight = {}
  /\ parser = InitializedParser(mongooseModels)
  /\ connection = InitializedConnection(mongooseModels)

RelationSpec == InitRelation /\ [][Next]_vars

\* the Seeder with reset set in the global section of the config file, on
\* collections whose documents reference documents that are gone
CommentModel ==
  SchemaModel("Comment",
    <<Field("content", "string", FALSE, FALSE, undefined, undefined),
      RefField("postId", "Post"),
      IdField>>)

\* the registries and the models entries of their config files
ResetScenarios ==
  { [models |-> <<PostModel, UserModel>>,
     file |-> [User |-> [count |-> UserCount], Post |-> [count |-> PostCount]]],
    [models |-> <<CommentModel, PostModel, UserModel>>,
     file |-> [User |-> [count |-> 1], Post |-> [count |-> 1],
               Comment |-> [count |-> 1]]] }

ResetGlobalChoices == { [reset |-> TRUE], [reset |-> TRUE, randomize |-> TRUE] }

\* a document left in the collection of the model by an earlier use of the
\* database: each of its foreign keys names a document that is gone
OrphanDocument(model, id) ==
  [k \in {"_id"} \cup {f.name : f \in {g \in RangeOf(model.fields) : g.isForeignKey}} |->
     IF k = "_id" THEN id ELSE newObjectId]

RECURSIVE OrphanStore(_, _, _)
OrphanStore(ms, sizes, firstId) ==
  IF ms = <<>> THEN <<>>
  ELSE LET name == Head(ms).name
       IN (name :> [n \in 1..sizes[name] |-> OrphanDocument(Head(ms), firstId + n - 1)])
          @@ OrphanStore(Tail(ms), sizes, firstId + sizes[name])

InitReset ==
  /\ \E scenario \in ResetScenarios, global \in ResetGlobalChoices :
       /\ models = scenario.models
       /\ config = mergeWithDefaults([global |-> global, models |-> scenario.file])
  /\ mongooseModels = ModelNames(models)
  /\ generatedData = <<>>
  /\ \E sizes \in [ModelNames(models) -> 0..MaxPre] :
       /\ store = OrphanStore(models, sizes, 1)
       /\ nextId = 1 + SumSizes(NamesOf(models), sizes)
  /\ pc = "idle"
  /\ sorted = <<>>
  /\ visited = {}
  /\ visiting = {}
  /\ stack = <<>>
  /\ idx = 1
  /\ results = <<>>
  /\ runLog = <<>>
  /\ last = NoCall
  /\ calls = 0
  /\ inflight = {}
  /\ parser = InitializedParser(mongooseModels)
  /\ connection = InitializedConnection(mongooseModels)

ResetSpec == InitReset /\ [][Next]_vars

\* =================================================== the Synthesizer alone
\* the fields the parser makes of a Mongoose schema with string, enum, number,
\* boolean, date, mixed and reference paths
SynthFields ==
  { Field("email", "string", FALSE, FALSE, undefined, undefined),
    Field("title", "string", FALSE, FALSE, undefined, undefined),
    Field("content", "string", FALSE, FALSE, undefined, undefined),
    Field("status", "string", FALSE, FALSE, undefined, "draft"),
    Field("age", "number", FALSE, FALSE, undefined, undefined),
    Field("published", "boolean", FALSE, FALSE, undefined, "false"),
    Field("createdAt", "datetime", FALSE, FALSE, undefined, "function"),
    Field("meta", "json", FALSE, FALSE, undefined, undefined),
    EnumField("role", <<"admin", "user">>),
    ArrayRefField("members", "User"),
    IdField }

\* the fields the parser makes of a Prisma model with an Int @id, String,
\* Boolean @default(false), DateTime and enum columns
PrismaSynthFields ==
  { Field("id", "number", TRUE, FALSE, undefined, undefined),
    Field("email", "string", FALSE, FALSE, undefined, undefined),
    Field("content", "string", FALSE, FALSE, undefined, undefined),
    Field("published", "boolean", FALSE, FALSE, undefined, "false"),
    Field("birthday", "datetime", FALSE, FALSE, undefined, undefined),
    Field("role", "enum", FALSE, FALSE, undefined, undefined) }

\* the FieldConfig entries tried; a generator is given by the parts of its path
FieldConfigChoices ==
  { <<>>,
    [ignore |-> TRUE],
    [ignore |-> TRUE, defaultValue |-> "fromConfig"],
    [defaultValue |-> "fromConfig"],
    [defaultValue |-> "fromConfig", type |-> "number"],
    [type |-> "number"],
    [type |-> "string"],
    [type |-> "enum"],
    [type |-> "enum", values |-> <<"a", "b">>],
    [values |-> <<"a", "b">>],
    [values |-> <<>>],
    [generator |-> <<"lorem", "sentence">>],
    [generator |-> <<"internet", "email">>],
    [generator |-> <<"lorem", "nosuch">>],
    [generator |-> <<"nosuch">>],
    [generator |-> <<"seed">>],
    [generator |-> <<"seed", "nosuch">>],
    [pattern |-> "[a-z]{5}"],
    [generator |-> <<"lorem", "sentence">>, pattern |-> "[a-z]{5}"],
    [type |-> "string", generator |-> <<"lorem", "sentence">>] }

\* the observation of one call of the Synthesizer and of the assignment that
\* follows it in generateModelData
Synthesized(seeder, field, fieldConfig, value) ==
  [op |-> "generateFieldValue", seeder |-> seeder, field |-> field,
   fieldConfig |-> fieldConfig, value |-> value,
   record |-> WithValue(<<>>, field.name, value)]

\* generateFieldValue(field, fieldConfig, modelName) of the Mongoose Seeder
Generate ==
  /\ \E field \in SynthFields, fieldConfig \in FieldConfigChoices :
       \E value \in generateFieldValue(field, fieldConfig) :
         last' = Synthesized("mongoose", field, fieldConfig, value)
  /\ UNCHANGED <<seederVars, sortVars, dataVars, pc, results, runLog>>

\* generateFieldValue(field, fieldConfig, modelName) of the Prisma Seeder
PrismaGenerate ==
  /\ \E field \in PrismaSynthFields, fieldConfig \in FieldConfigChoices :
       \E value \in prismaGenerateFieldValue(field, fieldConfig) :
         last' = Synthesized("prisma", field, fieldConfig, value)
  /\ UNCHANGED <<seederVars, sortVars, dataVars, pc, results, runLog>>

SynthNext == Generate \/ PrismaGenerate

\* a Seeder that has made no call
InitSynth ==
  /\ models = <<>>
  /\ config = mergeWithDefaults([global |-> <<>>, models |-> <<>>])
  /\ mongooseModels = {}
  /\ generatedData = <<>>
  /\ store = <<>>
  /\ nextId = 1
  /\ pc = "idle"
  /\ sorted = <<>>
  /\ visited = {}
  /\ visiting = {}
  /\ stack = <<>>
  /\ idx = 1
  /\ results = <<>>
  /\ runLog = <<>>
  /\ last = NoCall
  /\ calls = 0
  /\ inflight = {}
  /\ parser = NewParser(TRUE, 0)
  /\ connection = Connection(0, 0, 0)

SynthSpec == InitSynth /\ [][SynthNext]_vars

\* ------------------------------------------------- the dependency graph
\* M depends on R: a foreign-key field of M names the registered model R
DependsOn(ms, m, r) ==
  \E f \in RangeOf(ms[m].fields) :
    /\ f.isForeignKey
    /\ f.relationModel = ms[r].name

RECURSIVE ReachN(_, _, _, _)
ReachN(ms, m, r, n) ==
  IF n = 0 THEN FALSE
  ELSE \/ DependsOn(ms, m, r)
       \/ \E q \in 1..Len(ms) : q # m /\ DependsOn(ms, m, q) /\ ReachN(ms, q, r, n - 1)

\* no model reaches itself through other models (self references aside)
Acyclic(ms) ==
  \A m \in 1..Len(ms), r \in 1..Len(ms) :
    m # r => ~(ReachN(ms, m, r, Len(ms)) /\ ReachN(ms, r, m, Len(ms)))

\* sortModelsByDependencies has returned
SortDone == pc = "loop"

\* the number of positions of the Orderer's output that hold the model
Occurrences(s, model) == Cardinality({n \in 1..Len(s) : s[n] = model})

\* ------------------------------------------------------------- claims
\* C1: ordering invariant. When the Orderer has returned and no two distinct
\* registered models depend on each other (directly or through others), every
\* model M with a foreign-key field naming a registered model R other than M
\* finds R at a strictly smaller index of the output than M.
C1_OrderingInvariant ==
  (SortDone /\ Acyclic(models)) =>
    \A m \in 1..Len(models), r \in 1..Len(models) :
      (m # r /\ DependsOn(models, m, r)) =>
        /\ findModel(sorted, models[r].name) # 0
        /\ findModel(sorted, models[m].name) # 0
        /\ findModel(sorted, models[r].name) < findModel(sorted, models[m].name)

\* C1 witness: the chain A -> B -> C, registered in the order A, B, C, has
\* been sorted, and the output is C, B, A.
C1_Witness ==
  /\ SortDone
  /\ Acyclic(models)
  /\ DependsOn(models, 1, 2)
  /\ DependsOn(models, 2, 3)
  /\ [n \in 1..Len(sorted) |-> sorted[n].name] = <<"C", "B", "A">>

\* C2: cycle tolerance. Whatever the graph (self references, mutual
\* references, longer cycles, references to unregistered models), the
\* Orderer's output holds every registered model exactly once and nothing else.
C2_Permutation ==
  SortDone =>
    /\ Len(sorted) = Len(models)
    /\ \A n \in 1..Len(models) : Occurrences(sorted, models[n]) = 1
    /\ \A n \in 1..Len(sorted) : findModel(models, sorted[n].name) # 0

\* C2 witness: the Orderer has returned on a registry where A references
\* itself, A and B reference each other and B references an unregistered model.
C2_Witness ==
  /\ SortDone
  /\ DependsOn(models, 1, 1)
  /\ DependsOn(models, 1, 2)
  /\ DependsOn(models, 2, 1)
  /\ \E f \in RangeOf(models[2].fields) : f.isForeignKey /\ f.relationModel = "Ghost"

\* C3: Orderer termination. Under fair scheduling of the traversal's steps,
\* every run of sortModelsByDependencies reaches its return; the state in which
\* the recursion has overflowed the stack absorbs, so reaching the return also
\* says that no error was raised.
C3_OrdererTerminates == <>(pc = "loop")

\* C3 witness: the Orderer has returned on a registry that holds the cycle
\* A -> B -> C -> A.
C3_Witness ==
  /\ SortDone
  /\ DependsOn(models, 1, 2)
  /\ DependsOn(models, 2, 3)
  /\ DependsOn(models, 3, 1)

\* ----------------------------------------------------- claims on seeding
\* the last call was a seed that got as far as generateModelData
Generated(call) ==
  /\ call.op = "seed"
  /\ findModel(models, call.model) # 0
  /\ call.model \in mongooseModels
  /\ call.fail # "deleteMany"

\* the foreign-key fields of the model that generateModelData does not skip
ForeignKeys(call) ==
  {f \in RangeOf(models[findModel(models, call.model)].fields) :
     /\ f.isForeignKey
     /\ f.relationModel # undefined
     /\ ~shouldSkipField(f, call.merged)}

\* C4: whole-graph completeness. seedAll never rejects; while it runs, every
\* seed it has made has left exactly one SeedResult, in the Orderer's order; and
\* when it returns, the results are exactly one per registered model, in the
\* Orderer's order, whichever of the seeds failed.
C4_WholeGraphCompleteness ==
  /\ pc # "rejected"
  /\ pc \in {"loop", "returned"} =>
       /\ Len(results) = Len(runLog)
       /\ Len(results) <= Len(sorted)
       /\ \A n \in 1..Len(results) :
            /\ results[n].model = sorted[n].name
            /\ results[n].model = runLog[n].model
  /\ pc = "returned" =>
       /\ Len(results) = Len(models)
       /\ \A m \in 1..Len(models) :
            Cardinality({n \in 1..Len(results) : results[n].model = models[m].name}) = 1

\* C4 witness: seedAll has returned two results, the first a failure and the
\* second a success.
C4_Witness ==
  /\ pc = "returned"
  /\ Len(results) = 2
  /\ ~results[1].success
  /\ results[2].success

CountAccounted(call) ==
  /\ call.result = successResult(call.model, call.count)
  /\ Len(call.inserted) = call.count
  /\ store[call.model] = call.atGenerate[call.model] \o call.inserted
  /\ \A name \in DOMAIN call.preStore :
       IdsOf(call.inserted) \cap IdsOf(call.preStore[name]) = {}
  /\ Cardinality(IdsOf(call.inserted)) = call.count

\* a seed(M, n) of a registered model with a storage binding
SeedOfBoundModel(call) ==
  /\ call.op = "seed"
  /\ findModel(models, call.model) # 0
  /\ call.model \in mongooseModels

UserPostScenario ==
  /\ ModelNames(models) = {"User", "Post"}
  /\ getModelConfig(config, "User") = [count |-> UserCount]
  /\ getModelConfig(config, "Post") = [count |-> PostCount]

\* C7: foreign-key availability. In a seedAll run over User and Post whose seed
\* of User met no storage failure, Post is seeded second, after the seed of
\* User has returned, and each of the PostCount generated Post records carries
\* an authorId that is the identifier of a User document that seed persisted.
C7_ForeignKeyAvailable ==
  (/\ UserPostScenario
   /\ pc \in {"loop", "returned"}
   /\ \E n \in 1..Len(runLog) : runLog[n].model = "Post"
   /\ \A n \in 1..Len(runLog) : runLog[n].model = "User" => runLog[n].fail = "none") =>
    /\ Len(runLog) = 2
    /\ runLog[1].model = "User"
    /\ runLog[2].model = "Post"
    /\ results[1] = successResult("User", UserCount)
    /\ Cardinality(runLog[1].ids) = UserCount
    /\ runLog[1].ids \subseteq IdsOf(store["User"])
    /\ last.model = "Post"
    /\ last.fail # "deleteMany" =>
         /\ Len(last.data) = PostCount
         /\ \A n \in 1..Len(last.data) :
              /\ Has(last.data[n], "authorId")
              /\ last.data[n].authorId \in runLog[1].ids

\* C7 witness: such a run has returned, on a store that held a User document
\* before, and its Post records name two different new User documents.
C7_Witness ==
  /\ UserPostScenario
  /\ pc = "returned"
  /\ Len(runLog) = 2
  /\ runLog[1].fail = "none"
  /\ runLog[2].fail = "none"
  /\ Len(last.preStore["User"]) > UserCount
  /\ \E a, b \in 1..Len(last.data) : last.data[a].authorId # last.data[b].authorId

\* the resolver finds no record of the field's target: the GeneratedRecordSet
\* entry is missing or empty, and the store holds no record of it (or no
\* collection)
NothingToReference(call, field) ==
  /\ ~(Has(call.preGenerated, field.relationModel)
       /\ Len(call.preGenerated[field.relationModel]) > 0)
  /\ \/ field.relationModel \notin mongooseModels
     \/ Len(call.atGenerate[field.relationModel]) = 0

\* C8: reference resolution fallback. When a seed generates records while
\* neither the GeneratedRecordSet nor the store holds a record of a foreign
\* key's target, none of the generated records has that field, all count
\* records are generated and handed to the store, and the seed succeeds with
\* that count unless the store rejects the insert.
C8_ResolutionFallback ==
  Generated(last) =>
    \A field \in ForeignKeys(last) :
      NothingToReference(last, field) =>
        /\ Len(last.data) = last.count
        /\ \A n \in 1..Len(last.data) : ~Has(last.data[n], field.name)
        /\ "insert" \in last.ops
        /\ last.handed = last.data
        /\ last.fail # "insert" =>
             /\ last.result = successResult(last.model, last.count)
             /\ Len(last.inserted) = last.count
             /\ \A n \in 1..last.count :
                  last.inserted[n] = Put(last.data[n], "_id", last.inserted[n]._id)
             /\ store[last.model] = last.atGenerate[last.model] \o last.inserted

\* C8 witness: a successful seed of Post records, none with an authorId, made
\* while there was no User record anywhere.
C8_Witness ==
  /\ Generated(last)
  /\ last.model = "Post"
  /\ last.count > 0
  /\ last.result.success
  /\ \A field \in ForeignKeys(last) : NothingToReference(last, field)
  /\ \A n \in 1..Len(last.data) : ~Has(last.data[n], "authorId")
  /\ Len(store["Post"]) >= last.count

\* C9: no dangling identifier. Every foreign-key value a seed puts into a
\* generated record is the identifier of a document of the target model that
\* is in the store while the records are generated.
C9_NoDanglingIdentifier ==
  Generated(last) =>
    \A field \in ForeignKeys(last) :
      \A n \in 1..Len(last.data) :
        Has(last.data[n], field.name) =>
          /\ field.relationModel \in mongooseModels
          /\ last.data[n][field.name] \in IdsOf(last.atGenerate[field.relationModel])

\* the defaultValue the call's options give the field, if any
CallDefault(call, fieldName) ==
  IF Has(call.options, "fields") /\ Has(call.options.fields, fieldName)
     /\ Has(call.options.fields[fieldName], "defaultValue")
  THEN {call.options.fields[fieldName].defaultValue}
  ELSE {}

\* the defaultValue the config file gives the field of the model, if any
FileDefault(call, fieldName) ==
  LET entry == getModelConfig(config, call.model)
  IN IF Has(entry, "fields") /\ Has(entry.fields, fieldName)
        /\ Has(entry.fields[fieldName], "defaultValue")
     THEN {entry.fields[fieldName].defaultValue}
     ELSE {}

\* C10: config precedence. For every synthesized field of a seeded model, a
\* defaultValue given for it in the call's options is the value of every
\* generated record; failing that, a defaultValue given for it in the config
\* file is, whether or not the Model declares a default of its own.
C10_ConfigPrecedence ==
  Generated(last) =>
    \A field \in RangeOf(models[findModel(models, last.model)].fields) :
      (~field.isForeignKey /\ ~shouldSkipField(field, last.merged)) =>
        \A n \in 1..Len(last.data) :
          /\ \A v \in CallDefault(last, field.name) :
               Has(last.data[n], field.name) /\ last.data[n][field.name] = v
          /\ CallDefault(last, field.name) = {} =>
               \A v \in FileDefault(last, field.name) :
                 Has(last.data[n], field.name) /\ last.data[n][field.name] = v

\* the call's options, or the global section of the config, ask to randomize
RandomizeRequested(call) ==
  \/ config.global.randomize
  \/ Has(call.options, "randomize") /\ call.options.randomize

\* C13: randomized mode. A seed that reaches its insert saves the records one
\* by one, in a shuffled order, when the global config or the call's options
\* ask to randomize, and hands them to the store in one batch otherwise.
C13_RandomizedMode ==
  (Generated(last) /\ "insert" \in last.ops) =>
    IF RandomizeRequested(last)
    THEN last.insertCall = "save" /\ last.handed \in Shuffles(last.data)
    ELSE last.insertCall = "insertMany" /\ last.handed = last.data

\* C14: storage failure semantics. A seed whose deleteMany or insert the store
\* rejects returns {success: false, count: 0, error} and leaves the
\* GeneratedRecordSet as it was. After a rejected deleteMany the store is as it
\* was and nothing else was asked of it. After a rejected insert the collection
\* holds what it held when generation began (nothing, after a reset) followed by
\* the records saved before the rejection, a proper prefix of the records in
\* the order they were handed over; the other collections are untouched.
C14_StorageFailure ==
  (last.op = "seed" /\ last.fail \in {"insert", "deleteMany"}) =>
    /\ ~last.result.raised
    /\ last.result.success = FALSE
    /\ last.result.count = 0
    /\ Has(last.result, "error")
    /\ generatedData = last.preGenerated
    /\ last.fail = "deleteMany" =>
         /\ store = last.preStore
         /\ last.ops = {"deleteMany"}
    /\ last.fail = "insert" =>
         /\ store = [last.atGenerate EXCEPT ![last.model] = @ \o last.inserted]
         /\ Len(last.inserted) <= Len(last.handed)
         /\ last.count > 0 => Len(last.inserted) < Len(last.handed)
         /\ \A n \in 1..Len(last.inserted) :
              last.inserted[n] = Put(last.handed[n], "_id", last.inserted[n]._id)
         /\ last.atGenerate =
              IF shouldReset(last.merged, config)
              THEN [last.preStore EXCEPT ![last.model] = <<>>]
              ELSE last.preStore

\* C14 witness: a randomized seed with a reset, made when the collection and
\* the GeneratedRecordSet entry held records, has saved one record and then had
\* a save rejected.
C14_Witness ==
  /\ last.op = "seed"
  /\ last.fail = "insert"
  /\ last.insertCall = "save"
  /\ "deleteMany" \in last.ops
  /\ Len(last.preStore[last.model]) > 0
  /\ Has(last.preGenerated, last.model)
  /\ Len(last.preGenerated[last.model]) > 0
  /\ Len(last.inserted) = 1
  /\ Len(store[last.model]) = 1

\* C15: seedAll count selection. Every seed that seedAll makes is made with the
\* count of the model's config-file entry, whatever that count is (0 as well),
\* and with 10 when the entry gives no count.
C15_CountSelection ==
  (last.op = "seed" /\ last.inRun) =>
    last.count = IF Has(getModelConfig(config, last.model), "count")
                 THEN getModelConfig(config, last.model).count
                 ELSE DefaultCount

\* the records the GeneratedRecordSet holds for the model
Recorded(gd, modelName) == IF Has(gd, modelName) THEN gd[modelName] ELSE <<>>

\* C16: GeneratedRecordSet lifecycle. The set is empty before the first call;
\* a seed that does not succeed leaves it as it was; a seed of M that succeeds
\* leaves the entries of the other models as they were and makes the entry of
\* M the records it held before followed by the records just inserted.
C16_Lifecycle ==
  /\ calls = 0 => generatedData = <<>>
  /\ last.op = "seed" =>
       IF last.result.success
       THEN /\ \A name \in DOMAIN last.preGenerated \ {last.model} :
                 Has(generatedData, name) /\ generatedData[name] = last.preGenerated[name]
            /\ LET before == Recorded(last.preGenerated, last.model)
                    after == Recorded(generatedData, last.model)
                IN /\ Len(after) = Len(before) + Len(last.inserted)
                   /\ SubSeq(after, 1, Len(before)) = before
                   /\ RangeOf(SubSeq(after, Len(before) + 1, Len(after))) =
                        RangeOf(last.inserted)
       ELSE generatedData = last.preGenerated

\* the position of the model in the Orderer's output
Position(modelName) == findModel(sorted, modelName)

\* C19: ordering under cycles. When the Orderer has returned, whatever the
\* graph, every foreign-key edge M -> R between two registered models such that
\* R does not reach M (directly or through other models) finds R before M in
\* the output.
C19_OrderingUnderCycles ==
  SortDone =>
    \A m \in 1..Len(models), r \in 1..Len(models) :
      (m # r /\ DependsOn(models, m, r) /\ ~ReachN(models, r, m, Len(models))) =>
        /\ Position(models[r].name) # 0
        /\ Position(models[m].name) # 0
        /\ Position(models[r].name) < Position(models[m].name)

\* C19 witness: A and B reference each other and C references A; the Orderer
\* has returned, with C after A.
C19_Witness ==
  /\ SortDone
  /\ DependsOn(models, 1, 2)
  /\ DependsOn(models, 2, 1)
  /\ DependsOn(models, 3, 1)
  /\ ~ReachN(models, 1, 3, Len(models))
  /\ Position("A") < Position("C")

\* the Registry is A then B, each with a foreign key to the other
MutualScenario ==
  /\ Len(models) = 2
  /\ models[1] = MutualA
  /\ models[2] = MutualB

\* C20: mutual dependency. With A -> B and B -> A and A first in the Registry,
\* the Orderer returns B, A. A seedAll that starts on empty collections and an
\* empty GeneratedRecordSet and meets no storage failure seeds B first, every B
\* record without its foreign key aId, and then A, every A record with a
\* foreign key bId that is the identifier of a B document the run persisted.
C20_MutualDependency ==
  MutualScenario =>
    /\ pc \in {"loop", "returned"} =>
         [n \in 1..Len(sorted) |-> sorted[n].name] = <<"B", "A">>
    /\ (/\ pc \in {"loop", "returned"}
        /\ Len(runLog) > 0
        /\ \A name \in DOMAIN runLog[1].preStore : runLog[1].preStore[name] = <<>>
        /\ runLog[1].preGenerated = <<>>
        /\ \A n \in 1..Len(runLog) : runLog[n].fail = "none") =>
         /\ runLog[1].model = "B"
         /\ Len(runLog) = 1 =>
              /\ Len(last.data) > 0
              /\ \A n \in 1..Len(last.data) : ~Has(last.data[n], "aId")
              /\ last.inserted = Documents(last.data, last.inserted[1]._id)
              /\ store["B"] = last.inserted
         /\ Len(runLog) = 2 =>
              /\ runLog[2].model = "A"
              /\ Len(last.data) > 0
              /\ \A n \in 1..Len(last.data) :
                   /\ Has(last.data[n], "bId")
                   /\ last.data[n].bId \in runLog[1].ids
                   /\ last.data[n].bId \in IdsOf(store["B"])
              /\ \A n \in 1..Len(store["B"]) : ~Has(store["B"][n], "aId")

\* C20 witness: such a run has returned; B's document has no aId and A's
\* document names it.
C20_Witness ==
  /\ MutualScenario
  /\ pc = "returned"
  /\ Len(runLog) = 2
  /\ runLog[1].preGenerated = <<>>
  /\ \A name \in DOMAIN runLog[1].preStore : runLog[1].preStore[name] = <<>>
  /\ \A n \in 1..Len(runLog) : runLog[n].fail = "none"
  /\ Len(store["B"]) = 1
  /\ ~Has(store["B"][1], "aId")
  /\ Len(store["A"]) = 1
  /\ store["A"][1].bId = store["B"][1]._id

\* ------------------------------------------ claims on the Prisma Seeder
\* the last seed call has returned its SeedResult
Returned(call) == call.op = "seed" /\ Has(call.result, "success")

\* the merged configuration marks the field ignore
Ignored(call, field) ==
  /\ Has(fieldConfigOf(call.merged, field.name), "ignore")
  /\ fieldConfigOf(call.merged, field.name).ignore

\* C11: ignore/identifier omission. No record a seed generates has a key for a
\* field of the model that the merged configuration marks ignore or that the
\* Registry classifies as primary key, whatever the field's name and type.
C11_IdentifierOmitted ==
  (last.op = "seed" /\ findModel(models, last.model) # 0) =>
    \A field \in RangeOf(models[findModel(models, last.model)].fields) :
      (field.isPrimaryKey \/ Ignored(last, field)) =>
        \A n \in 1..Len(last.data) : ~Has(last.data[n], field.name)

\* C12: reset mode. A successful seed(M, n) whose merged model configuration
\* (config-file entry overlaid by the call's options) or whose global
\* configuration asks for a reset has deleted the records of M, and leaves the
\* store with exactly the n records it inserted for M.
C12_ResetMode ==
  (Returned(last) /\ last.result.success /\ shouldReset(last.merged, config)) =>
    /\ "deleteMany" \in last.ops
    /\ Len(last.inserted) = last.count
    /\ store[last.model] = last.inserted

\* C17: recorded records are the persisted ones. After a successful seed(M, n)
\* with n > 0, every row the call persisted is in the GeneratedRecordSet entry
\* of M as persisted (with its store-assigned identifier), and every record of
\* the entry is a row this call persisted or a record the entry held before.
C17_RecordedArePersisted ==
  (Returned(last) /\ last.result.success /\ last.count > 0) =>
    /\ Has(generatedData, last.model)
    /\ \A doc \in RangeOf(last.inserted) : doc \in RangeOf(generatedData[last.model])
    /\ \A rec \in RangeOf(generatedData[last.model]) :
         \/ rec \in RangeOf(last.inserted)
         \/ rec \in RangeOf(Recorded(last.preGenerated, last.model))

\* C18: no internal parallelism. At every moment at most one storage call of
\* the Seeder is outstanding.
C18_OneOutstandingCall == Cardinality(inflight) <= 1

\* ------------------------------------------------ claims on self-reference
\* the foreign keys of the seeded model that name the model itself
SelfReferences(call) ==
  {field \in ForeignKeys(call) : field.relationModel = call.model}

\* the call asked for a reset, by its merged configuration or the global section
ResetRequested(call) ==
  \/ Has(call.merged, "reset") /\ call.merged.reset
  \/ config.global.reset

\* C21: self-reference within one call. A successful seed(M, n) of a model
\* with a foreign key to M itself, made while the store holds no M document
\* and the GeneratedRecordSet holds no M record, inserts n documents none of
\* which carries the self-referencing field. A seed(M, n) without reset that
\* meets no storage failure and finds M records from an earlier seed gives
\* every record a self-reference to a document persisted before the call.
C21_SelfReference ==
  (Generated(last) /\ last.result.success) =>
    \A field \in SelfReferences(last) :
      /\ (/\ last.atGenerate[last.model] = <<>>
          /\ Recorded(last.preGenerated, last.model) = <<>>) =>
           /\ Len(last.inserted) = last.count
           /\ \A n \in 1..Len(last.inserted) : ~Has(last.inserted[n], field.name)
      /\ (/\ ~ResetRequested(last)
          /\ last.fail = "none"
          /\ \/ last.preStore[last.model] # <<>>
             \/ Recorded(last.preGenerated, last.model) # <<>>) =>
           /\ Len(last.inserted) = last.count
           /\ \A n \in 1..Len(last.inserted) :
                /\ Has(last.inserted[n], field.name)
                /\ last.inserted[n][field.name] \in
                     IdsOf(last.preStore[last.model]) \cup
                     IdsOf(Recorded(last.preGenerated, last.model))
                /\ last.inserted[n][field.name] < last.inserted[1]._id

\* C21 witness: Category was seeded on an empty collection, its documents
\* without parentId, and a second seed without reset gave its documents the
\* parentId of a document of the first.
C21_Witness ==
  /\ calls = 2
  /\ Generated(last) /\ last.result.success
  /\ last.model = "Category"
  /\ ~ResetRequested(last)
  /\ last.count = MaxCount
  /\ Len(last.preStore["Category"]) = MaxCount
  /\ \A n \in 1..MaxCount : ~Has(last.preStore["Category"][n], "parentId")
  /\ IdsOf(Recorded(last.preGenerated, "Category")) = IdsOf(last.preStore["Category"])
  /\ \A n \in 1..Len(last.inserted) :
       last.inserted[n].parentId \in IdsOf(last.preStore["Category"])

\* ------------------------------------------------ claims on the Synthesizer
\* the field declares a default that is a static literal, not a generator function
StaticDefault(field) ==
  field.defaultValue # undefined /\ field.defaultValue \notin FunctionDefaults

\* the type the dispatch of the Synthesizer goes by
DispatchType(field, fieldConfig) ==
  IF Has(fieldConfig, "type") THEN fieldConfig.type ELSE field.type

\* C24: the Synthesizer resolves first match wins over: config.ignore, absent;
\* primary key, absent; static literal default of the field, that literal;
\* config.defaultValue, that literal; otherwise a value dispatched on
\* config.type, else field.type. A field whose declared default is a generator
\* function does not match the static-default step: it yields
\* config.defaultValue when present and a dispatched value otherwise.
C24_ResolutionOrder ==
  last.op = "generateFieldValue" =>
    LET field == last.field
        fieldConfig == last.fieldConfig
    IN IF Has(fieldConfig, "ignore") /\ fieldConfig.ignore THEN last.value = None
       ELSE IF field.isPrimaryKey THEN last.value = None
       ELSE IF StaticDefault(field) THEN last.value = Some(field.defaultValue)
       ELSE IF Has(fieldConfig, "defaultValue")
       THEN last.value = Some(fieldConfig.defaultValue)
       ELSE /\ last.value # None
            /\ last.value[1] \in
                 (IF last.seeder = "mongoose"
                  THEN GeneratedValue(DispatchType(field, fieldConfig), field, fieldConfig)
                  ELSE prismaGeneratedValue(DispatchType(field, fieldConfig), field,
                                            fieldConfig))

\* the call got as far as the type dispatch of the Synthesizer
Dispatched(call) ==
  /\ call.op = "generateFieldValue"
  /\ ~(Has(call.fieldConfig, "ignore") /\ call.fieldConfig.ignore)
  /\ ~call.field.isPrimaryKey
  /\ call.field.defaultValue = undefined
  /\ ~Has(call.fieldConfig, "defaultValue")

\* a list of the field or of the config, empty when it is missing
ListOf(f, key) == IF Has(f, key) THEN f[key] ELSE <<>>

\* C25: enum synthesis. The value of an enum field is a member of
\* field.enumValues when that list is non-empty, otherwise a member of
\* config.values when that list is non-empty; when neither list provides a
\* value the result is absent and the generated record does not contain the
\* field's key.
C25_EnumSynthesis ==
  (Dispatched(last) /\ DispatchType(last.field, last.fieldConfig) = "enum") =>
    LET enumValues == ListOf(last.field, "enumValues")
        values == ListOf(last.fieldConfig, "values")
    IN IF Len(enumValues) > 0
       THEN /\ last.value # None
            /\ last.value[1] \in RangeOf(enumValues)
            /\ Has(last.record, last.field.name)
       ELSE IF Len(values) > 0
       THEN /\ last.value # None
            /\ last.value[1] \in RangeOf(values)
            /\ Has(last.record, last.field.name)
       ELSE /\ last.value = None
            /\ ~Has(last.record, last.field.name)

\* what the function of faker a namespace/function path names returns;
\* undefined for a path that names no such function
FakerFunction(path) ==
  CASE path = <<"lorem", "sentence">> -> "<sentence>"
    [] path = <<"internet", "email">> -> "<email>"
    [] OTHER -> undefined

\* the path is a namespace of faker followed by a name
Namespaced(path) == Len(path) = 2 /\ FakerMemberType(path[1]) = "object"

\* C26: custom generator dispatch for strings. A name hint that matches
\* decides the value, before config.generator and config.pattern. For a string
\* field whose name matches no hint, a config.generator that names a
\* namespace/function path such as lorem.sentence produces the value of that
\* generator function, and a path that resolves to no function yields the
\* default phrase.
C26_CustomGenerator ==
  (Dispatched(last) /\ DispatchType(last.field, last.fieldConfig) = "string") =>
    /\ last.value # None
    /\ StringHint(last.field.name) # undefined =>
         last.value = Some(StringHint(last.field.name))
    /\ (StringHint(last.field.name) = undefined /\ Has(last.fieldConfig, "generator")) =>
         LET path == last.fieldConfig.generator
         IN /\ FakerFunction(path) # undefined =>
                 last.value = Some(FakerFunction(path))
            /\ (Namespaced(path) /\ FakerFunction(path) = undefined) =>
                 last.value = Some("<words>")
            /\ FakerMemberType(path[1]) = "undefined" =>
                 last.value = Some("<words>")

\* ------------------------------------------------ claims on relation fields
\* the fields of the seeded model that declare a target model and that
\* generateModelData does not skip
RelationFields(call) ==
  {f \in RangeOf(models[findModel(models, call.model)].fields) :
     f.relationModel # undefined /\ ~shouldSkipField(f, call.merged)}

\* the identifiers of the documents of a model the store or the
\* GeneratedRecordSet held when the call began
KnownIds(call, modelName) ==
  (IF modelName \in DOMAIN call.preStore THEN IdsOf(call.preStore[modelName]) ELSE {})
  \cup IdsOf(Recorded(call.preGenerated, modelName))

\* C22: references are resolved, never invented. For every field that declares
\* a target model, an array of references included, the value a generated
\* record holds is the identifier of a record of the target model, or the
\* field is left out; it never is a fresh identifier of the Synthesizer.
C22_ReferencesResolved ==
  Generated(last) =>
    \A field \in RelationFields(last) :
      \A n \in 1..Len(last.data) :
        Has(last.data[n], field.name) =>
          /\ last.data[n][field.name] # newObjectId
          /\ last.data[n][field.name] \in KnownIds(last, field.relationModel)

\* ------------------------------------------- claims on the resolver's errors
\* the resolver has no record of the target to give: the GeneratedRecordSet
\* holds none, and the target has no storage binding or the store query throws
ResolverFindsNothing(call, field) ==
  /\ Recorded(call.preGenerated, field.relationModel) = <<>>
  /\ \/ field.relationModel \notin mongooseModels
     \/ call.fail = "find"

\* C23: the Reference Resolver never raises. When a foreign key names a target
\* that has no storage binding or is not registered, or the store query for
\* the target's records throws, the resolver returns absent: the field is left
\* out of every record, and the seed goes on to insert its records and
\* succeeds.
C23_ResolverNeverRaises ==
  (Generated(last) /\ last.fail \in {"none", "find"}) =>
    /\ ~last.result.raised
    /\ last.result.success
    /\ last.result.count = last.count
    /\ Len(last.inserted) = last.count
    /\ last.count > 0 => "insert" \in last.ops
    /\ \A field \in ForeignKeys(last) :
         ResolverFindsNothing(last, field) =>
           \A n \in 1..Len(last.inserted) : ~Has(last.inserted[n], field.name)

\* C23 witness: the store query for User threw while Post was seeded; the
\* Post documents were inserted without authorId although User documents exist.
C23_Witness ==
  /\ Generated(last)
  /\ last.model = "Post"
  /\ last.fail = "find"
  /\ last.preStore["User"] # <<>>
  /\ last.result.success
  /\ last.count = MaxCount
  /\ Len(last.inserted) = MaxCount
  /\ \A n \in 1..Len(last.inserted) : ~Has(last.inserted[n], "authorId")
  /\ store["Post"] = last.preStore["Post"] \o last.inserted

\* -------------------------------------------- claims on configuration layers
\* the fields of the seeded model the Synthesizer gives a value
SynthesizedFields(call) ==
  {f \in RangeOf(models[findModel(models, call.model)].fields) :
     ~(f.isForeignKey /\ f.relationModel # undefined) /\ ~shouldSkipField(f, call.merged)}

\* every record of the call gives the field a value the Synthesizer may
\* return under fieldConfig
SynthesizedUnder(call, field, fieldConfig) ==
  \A n \in 1..Len(call.data) :
    \E value \in generateFieldValue(field, fieldConfig) :
      IF value = None THEN ~Has(call.data[n], field.name)
      ELSE Has(call.data[n], field.name) /\ call.data[n][field.name] = value[1]

\* C27: configuration layers are merged key by key at the top level only. A
\* key of the call's options replaces the config-file entry's value of that
\* key as a whole, so when the options hold a fields map the config-file
\* settings of the fields it does not name have no effect on the call; keys
\* the options do not hold keep their config-file values.
C27_TopLevelMerge ==
  Generated(last) =>
    LET file == getModelConfig(config, last.model)
    IN /\ DOMAIN last.merged = DOMAIN file \cup DOMAIN last.options
       /\ \A key \in DOMAIN last.options : last.merged[key] = last.options[key]
       /\ \A key \in DOMAIN file \ DOMAIN last.options : last.merged[key] = file[key]
       /\ \A field \in SynthesizedFields(last) :
            IF Has(last.options, "fields")
            THEN SynthesizedUnder(last, field, fieldConfigOf(last.options, field.name))
            ELSE SynthesizedUnder(last, field, fieldConfigOf(file, field.name))

\* C27 witness: the config file gives Team a default for label and a relations
\* map; a seed whose options hold a fields map that names members only has
\* generated label without that default and has kept the relations map.
C27_Witness ==
  /\ Generated(last)
  /\ last.model = "Team"
  /\ last.count > 0
  /\ Has(last.options, "fields")
  /\ ~Has(last.options.fields, "label")
  /\ fieldConfigOf(getModelConfig(config, "Team"), "label") = [defaultValue |-> "fromConfig"]
  /\ last.merged.fields = last.options.fields
  /\ last.merged.relations = getModelConfig(config, "Team").relations
  /\ last.merged.count = 1
  /\ \A n \in 1..Len(last.data) : last.data[n].label = "<words>"

\* ------------------------------------------------- claims on the frame
\* s begins with the sequence p
IsPrefix(p, s) == Len(p) <= Len(s) /\ SubSeq(s, 1, Len(p)) = p

\* C28: incremental append and frame. When neither the merged model
\* configuration nor the global configuration requests a reset, seed(M, n)
\* deletes no record: every document of M present before the call is still
\* present after it. In every mode seed(M, ...) leaves the documents and the
\* GeneratedRecordSet entry of every model other than M as they were.
C28_IncrementalFrame ==
  last.op = "seed" =>
    /\ DOMAIN store = DOMAIN last.preStore
    /\ \A name \in DOMAIN store \ {last.model} : store[name] = last.preStore[name]
    /\ \A name \in (DOMAIN generatedData \cup DOMAIN last.preGenerated) \ {last.model} :
         /\ Has(generatedData, name) /\ Has(last.preGenerated, name)
         /\ generatedData[name] = last.preGenerated[name]
    /\ (~ResetRequested(last) /\ last.model \in DOMAIN store) =>
         /\ IsPrefix(last.preStore[last.model], store[last.model])
         /\ "deleteMany" \notin last.ops

\* C28 witness: Post was seeded without reset after User; the Post document
\* that was there before is still there before the new ones, and the User
\* documents and the User records of the GeneratedRecordSet are as they were.
C28_Witness ==
  /\ last.op = "seed"
  /\ last.model = "Post"
  /\ last.result.success
  /\ ~ResetRequested(last)
  /\ last.count > 0
  /\ Len(last.preStore["Post"]) > 0
  /\ store["Post"] = last.preStore["Post"] \o last.inserted
  /\ Len(store["User"]) > 0
  /\ store["User"] = last.preStore["User"]
  /\ Has(last.preGenerated, "User")
  /\ Len(last.preGenerated["User"]) > 0
  /\ generatedData["User"] = last.preGenerated["User"]

\* ------------------------------------------- claims on the parser's connection
\* the parser was connected when the call began
WasConnected(call) ==
  call.preParser.isConnected /\ call.preConnection.readyState = 1

\* C29: connection lifecycle of the Mongoose parser. In every sequence of
\* connect, parseSchema and disconnect calls, a connect on a parser that is
\* already connected opens no second connection, and after a disconnect of a
\* connected parser the MongoDB connection is closed, also when models have
\* been loaded and are still registered.
C29_ConnectionLifecycle ==
  /\ (last.op \in {"connect", "parseSchema"} /\ WasConnected(last)) =>
       /\ ~last.threw
       /\ connection.opened = last.preConnection.opened
       /\ connection.readyState = 1
  /\ (last.op = "disconnect" /\ WasConnected(last)) =>
       /\ connection.readyState = 0
       /\ ~parser.isConnected

\* ----------------------------------------- claims on referential integrity
\* no model reaches itself through its foreign keys
StrictlyAcyclic(ms) ==
  \A m \in 1..Len(ms) : ~ReachN(ms, m, m, Len(ms))

\* every foreign-key value a document of the store holds is the identifier
\* of a document of the target model that is in the store
NoDanglingReference ==
  \A m \in 1..Len(models) :
    \A f \in {g \in RangeOf(models[m].fields) :
                g.isForeignKey /\ g.relationModel # undefined} :
      \A n \in 1..Len(store[models[m].name]) :
        LET doc == store[models[m].name][n]
        IN Has(doc, f.name) =>
             /\ f.relationModel \in DOMAIN store
             /\ doc[f.name] \in IdsOf(store[f.relationModel])

\* C30: referential integrity after a full reset run. For every acyclic
\* dependency graph, after a seedAll with global reset in which the seed of
\* every model succeeds, every foreign-key value of every document in the
\* store is the identifier of a document of the target model that is in the
\* store, whatever the collections held before the run.
C30_ReferentialIntegrity ==
  (/\ pc = "returned"
   /\ config.global.reset
   /\ StrictlyAcyclic(models)
   /\ \A n \in 1..Len(results) : results[n].success) =>
    /\ Len(results) = Len(models)
    /\ NoDanglingReference

\* C30 witness: the run began on collections that held a Post whose author was
\* gone and a User; it has returned, every seed succeeded, and the Post
\* documents now in the store name User documents that are in the store.
C30_Witness ==
  /\ pc = "returned"
  /\ config.global.reset
  /\ StrictlyAcyclic(models)
  /\ Len(results) = Len(models)
  /\ \A n \in 1..Len(results) : results[n].success
  /\ Len(runLog[1].preStore["Post"]) > 0
  /\ \A n \in 1..Len(runLog[1].preStore["Post"]) :
       runLog[1].preStore["Post"][n].authorId \notin IdsOf(runLog[1].preStore["User"])
  /\ Len(runLog[1].preStore["User"]) > 0
  /\ Len(store["Post"]) > 0
  /\ \A n \in 1..Len(store["Post"]) :
       /\ Has(store["Post"][n], "authorId")
       /\ store["Post"][n].authorId \in IdsOf(store["User"])
  /\ NoDanglingReference
====
